---- MODULE Spec2Model ----
(***************************************************************************)
(* A model of sqlcompare: the semantic differ (generate_semantic_notices), *)
(* the component extractor that feeds it (extract_components) and the      *)
(* comparison orchestrator (compare_sql) of src/src/sql_diff_ui.           *)
(*                                                                         *)
(* Python lists are sequences, Python sets are sets whose iteration order  *)
(* is not fixed by the language (string hashes are randomized per          *)
(* process), so every loop over a set is a choice among all orderings.     *)
(***************************************************************************)
EXTENDS Integers, Sequences, FiniteSets, TLC

VARIABLES
    components_a,   \* SQLComponents extracted from SQL A
    components_b,   \* SQLComponents extracted from SQL B
    pc,             \* "extract": the components are being built; "diff": they are compared
    call,           \* the arguments of the latest generate_semantic_notices call
    notices,        \* the list it returned
    prev_call,      \* the arguments of the call before it
    prev_notices,   \* the list that one returned
    ast,            \* the parsed tree extract_components reads, or None
    sql_a,          \* compare_sql: first query text
    sql_b,          \* compare_sql: second query text
    config,         \* compare_sql: normalize, ignore_whitespace, semantic_diff
    result,         \* compare_sql: the ComparisonResult returned, or NoResult
    input_sql,      \* SQLValidator: the text a method is called on
    parse_result,   \* SQLValidator: what sqlglot.parse_one answers for that text
    origin,         \* SQLValidator: the text whose beautification input_sql is, or None
    reply           \* SQLValidator: what the method returned or raised, or NoReply

vars == <<components_a, components_b, pc, call, notices, prev_call, prev_notices, ast,
          sql_a, sql_b, config, result, input_sql, parse_result, origin, reply>>

diff_vars == <<components_a, components_b, pc, call, notices, prev_call, prev_notices, ast>>

compare_vars == <<sql_a, sql_b, config, result>>

validator_vars == <<input_sql, parse_result, origin, reply>>

(***************************************************************************)
(* Bounds of the model.                                                    *)
(***************************************************************************)
\* Total number of list entries, LIMITs and OFFSETs in the two component models.
MaxItems == 3

\* Number of categories (SELECT, FROM, ..., LIMIT with OFFSET, SUBQUERY) in which
\* the two component models have entries.
MaxCategories == 1

\* Number of joins of a query in the specification of the differ on joins.
MaxJoins == 2

\* Number of leaf predicates of a WHERE or HAVING expression tree.
MaxPredicates == 4

\* Number of entries of a component list in the specification of the differ on
\* lists of long and short texts.
MaxListLength == 2

\* Number of lines of a text of parentheses given to the structural checks.
MaxParenLines == 7

\* Number of lines of a text of quotes given to the structural checks.
MaxQuoteLines == 11

\* Number of lines of a text of clause keywords given to the structural checks.
MaxClauseLines == 2

(***************************************************************************)
(* Helpers for Python values.                                              *)
(***************************************************************************)
\* Python's None (limit and offset are "str | None").
None == "<None>"

\* Truthiness of a "str | None" value: None and the empty string are falsy.
Truthy(x) == x # None /\ x # ""

\* set(list)
ToSet(s) == {s[i] : i \in DOMAIN s}

\* list.count(x)
Count(s, x) == Cardinality({i \in DOMAIN s : s[i] = x})

\* The orders in which a loop may visit the elements of a Python set.
RECURSIVE Orderings(_)
Orderings(S) ==
    IF S = {} THEN {<<>>}
    ELSE UNION {{<<x>> \o t : t \in Orderings(S \ {x})} : x \in S}

(***************************************************************************)
(* models.py                                                               *)
(***************************************************************************)
SELECT == "SELECT"
FROM == "FROM"
JOIN == "JOIN"
WHERE == "WHERE"
GROUP_BY == "GROUP_BY"
HAVING == "HAVING"
ORDER_BY == "ORDER_BY"
LIMIT == "LIMIT"
SUBQUERY == "SUBQUERY"
GENERAL == "GENERAL"

INFO == "INFO"
WARN == "WARN"

\* DiffNotice(category, summary, details=None, severity=INFO)
DiffNotice(category, summary, details, severity) ==
    [category |-> category, summary |-> summary, details |-> details,
     severity |-> severity]

\* SQLComponents with every list empty and no LIMIT/OFFSET.
EmptyComponents ==
    [select_expressions |-> <<>>, from_tables |-> <<>>, joins |-> <<>>,
     where_predicates |-> <<>>, group_by |-> <<>>, having_predicates |-> <<>>,
     order_by |-> <<>>, limit |-> None, offset |-> None, subqueries |-> <<>>]

(***************************************************************************)
(* The parsed trees the extractor reads.  Parsing is done by sqlglot; the  *)
(* model draws the parsed nodes from small sets.                           *)
(***************************************************************************)
\* Projected expressions: the expression's SQL and its alias ("" when not aliased).
SelectNodes == {[this |-> "id", alias |-> ""], [this |-> "COUNT(*)", alias |-> "n"]}

\* FROM targets.
FromNodes == {"users", "orders"}

\* Absent "on" argument of a join.
NoOn == "<no on>"

\* Joins: side keyword ("" when none), joined table, ON predicate.
JoinNodes ==
    {[side |-> "", this |-> "orders AS o", on |-> "u.id = o.user_id"],
     [side |-> "LEFT", this |-> "orders AS o", on |-> "u.id = o.user_id"],
     [side |-> "", this |-> "items", on |-> NoOn]}

\* Boolean expression trees of WHERE and HAVING; a parenthesized group is a
\* Paren node, [kind |-> "Paren", this |-> the group].
Leaf(s) == [kind |-> "Leaf", sql |-> s]
And(l, r) == [kind |-> "And", left |-> l, right |-> r]
Or(l, r) == [kind |-> "Or", left |-> l, right |-> r]

WhereNodes ==
    {Leaf("a = 1"),
     And(Leaf("a = 1"), Leaf("b = 2")),
     And(Leaf("b = 2"), Leaf("a = 1")),
     Or(Leaf("a = 1"), Leaf("b = 2"))}

HavingNodes == {Leaf("COUNT(*) > 5"), Leaf("SUM(x) > 0")}

GroupNodes == {"category", "region"}

\* ORDER BY entries: the expression and the "desc" argument.
OrderNodes == {[this |-> "id", desc |-> FALSE], [this |-> "id", desc |-> TRUE]}

LimitNodes == {"LIMIT 10", "LIMIT 20"}

OffsetNodes == {"OFFSET 5", "OFFSET 10"}

\* Subquery nodes: the kind of the parent node, of the grandparent node, whether
\* the walk of the subquery's own subtree meets a Select, and the inner body.
SubqueryNodes ==
    {[parent |-> "In", grandparent |-> "Where", walk_select |-> TRUE,
      this |-> "SELECT user_id FROM orders"],
     [parent |-> "Alias", grandparent |-> "Select", walk_select |-> TRUE,
      this |-> "SELECT user_id FROM orders"],
     [parent |-> "Alias", grandparent |-> "Select", walk_select |-> TRUE,
      this |-> "SELECT MAX(total) FROM orders"],
     [parent |-> "From", grandparent |-> "Select", walk_select |-> TRUE,
      this |-> "SELECT user_id FROM orders"]}

\* expr.sql() of a boolean expression tree
RECURSIVE Sql(_)
Sql(expr) ==
    CASE expr.kind = "Leaf" -> expr.sql
      [] expr.kind = "And" -> Sql(expr.left) \o " AND " \o Sql(expr.right)
      [] expr.kind = "Or" -> Sql(expr.left) \o " OR " \o Sql(expr.right)
      [] expr.kind = "Paren" -> "(" \o Sql(expr.this) \o ")"

(***************************************************************************)
(* diff_engine.py: extract_components and its helpers                      *)
(***************************************************************************)
RECURSIVE _split_predicates(_)
_split_predicates(expr) ==
    IF expr.kind = "And"
    THEN _split_predicates(expr.left) \o _split_predicates(expr.right)
    ELSE <<Sql(expr)>>

\* The location tag _extract_subqueries gives one Subquery node.
SubqueryLocation(subquery) ==
    CASE subquery.parent = None -> "UNKNOWN"
      [] subquery.parent = "In" -> "WHERE-IN"
      [] subquery.parent = "Exists" -> "WHERE-EXISTS"
      [] subquery.parent = "Where" -> "WHERE"
      [] subquery.parent = "From" -> "FROM"
      [] subquery.parent = "Join" -> "JOIN"
      [] subquery.parent = "Having" -> "HAVING"
      [] OTHER ->
            IF subquery.grandparent = "Select" THEN "SELECT"
            ELSE IF subquery.walk_select THEN "SELECT"
            ELSE "UNKNOWN"

\* The entry _extract_subqueries appends for one Subquery node.
SubqueryEntry(subquery) ==
    [location |-> SubqueryLocation(subquery), sql |-> subquery.this]

\* join_info of one join
JoinInfo(join) ==
    [type |-> IF join.side # "" THEN join.side ELSE "INNER",
     table |-> join.this,
     on |-> IF join.on # NoOn THEN join.on ELSE ""]

\* The select_expressions entry of one projected expression
SelectEntry(expr) ==
    IF expr.alias # "" THEN expr.this \o " AS " \o expr.alias ELSE expr.this

\* The order_by entry of one ORDER BY expression
OrderEntry(expr) ==
    expr.this \o " " \o (IF expr.desc THEN "DESC" ELSE "ASC")

\* The model has room for n more entries of a category.
Room(n, category) ==
    LET \* number of entries of a component model
        Weight(c) ==
            Len(c.select_expressions) + Len(c.from_tables) + Len(c.joins)
            + Len(c.where_predicates) + Len(c.group_by) + Len(c.having_predicates)
            + Len(c.order_by) + Len(c.subqueries)
            + (IF c.limit = None THEN 0 ELSE 1) + (IF c.offset = None THEN 0 ELSE 1)
        \* the categories in which a component model has entries
        Populated(c) ==
            {SELECT : i \in DOMAIN c.select_expressions}
            \cup {FROM : i \in DOMAIN c.from_tables}
            \cup {JOIN : i \in DOMAIN c.joins}
            \cup {WHERE : i \in DOMAIN c.where_predicates}
            \cup {GROUP_BY : i \in DOMAIN c.group_by}
            \cup {HAVING : i \in DOMAIN c.having_predicates}
            \cup {ORDER_BY : i \in DOMAIN c.order_by}
            \cup {LIMIT : i \in {c.limit, c.offset} \ {None}}
            \cup {SUBQUERY : i \in DOMAIN c.subqueries}
    IN  /\ Weight(components_a) + Weight(components_b) + n <= MaxItems
        /\ Cardinality(Populated(components_a) \cup Populated(components_b)
                       \cup {category}) <= MaxCategories

Sides == {"a", "b"}

Components(side) == IF side = "a" THEN components_a ELSE components_b

\* The extractor stores c as the component model of one side.
Store(side, c) ==
    /\ components_a' = IF side = "a" THEN c ELSE components_a
    /\ components_b' = IF side = "b" THEN c ELSE components_b
    /\ UNCHANGED <<pc, call, notices, prev_call, prev_notices, ast>>
    /\ UNCHANGED compare_vars
    /\ UNCHANGED validator_vars

ExtractSelect ==
    \E side \in Sides, expr \in SelectNodes :
        /\ pc = "extract" /\ Room(1, SELECT)
        /\ Store(side, [Components(side) EXCEPT
                            !.select_expressions = Append(@, SelectEntry(expr))])

ExtractFrom ==
    \E side \in Sides, from_expr \in FromNodes :
        /\ pc = "extract" /\ Room(1, FROM)
        /\ Components(side).from_tables = <<>>
        /\ Store(side, [Components(side) EXCEPT !.from_tables = Append(@, from_expr)])

ExtractJoin ==
    \E side \in Sides, join \in JoinNodes :
        /\ pc = "extract" /\ Room(1, JOIN)
        /\ Store(side, [Components(side) EXCEPT !.joins = Append(@, JoinInfo(join))])

ExtractWhere ==
    \E side \in Sides, where_expr \in WhereNodes :
        /\ pc = "extract" /\ Room(Len(_split_predicates(where_expr)), WHERE)
        /\ Components(side).where_predicates = <<>>
        /\ Store(side, [Components(side) EXCEPT
                            !.where_predicates = _split_predicates(where_expr)])

ExtractGroupBy ==
    \E side \in Sides, expr \in GroupNodes :
        /\ pc = "extract" /\ Room(1, GROUP_BY)
        /\ Store(side, [Components(side) EXCEPT !.group_by = Append(@, expr)])

ExtractHaving ==
    \E side \in Sides, having_expr \in HavingNodes :
        /\ pc = "extract" /\ Room(Len(_split_predicates(having_expr)), HAVING)
        /\ Components(side).having_predicates = <<>>
        /\ Store(side, [Components(side) EXCEPT
                            !.having_predicates = _split_predicates(having_expr)])

ExtractOrderBy ==
    \E side \in Sides, expr \in OrderNodes :
        /\ pc = "extract" /\ Room(1, ORDER_BY)
        /\ Store(side, [Components(side) EXCEPT !.order_by = Append(@, OrderEntry(expr))])

ExtractLimit ==
    \E side \in Sides, l \in LimitNodes :
        /\ pc = "extract" /\ Room(1, LIMIT)
        /\ Components(side).limit = None
        /\ Store(side, [Components(side) EXCEPT !.limit = l])

ExtractOffset ==
    \E side \in Sides, o \in OffsetNodes :
        /\ pc = "extract" /\ Room(1, LIMIT)
        /\ Components(side).offset = None
        /\ Store(side, [Components(side) EXCEPT !.offset = o])

ExtractSubquery ==
    \E side \in Sides, subquery \in SubqueryNodes :
        /\ pc = "extract" /\ Room(1, SUBQUERY)
        /\ Store(side, [Components(side) EXCEPT
                            !.subqueries = Append(@, SubqueryEntry(subquery))])

(***************************************************************************)
(* diff_engine.py: generate_semantic_notices and its helpers               *)
(***************************************************************************)
_truncate(text, max_len) ==
    IF Len(text) <= max_len THEN text
    ELSE SubSeq(text, 1, max_len - 3) \o "..."

\* A signature that leaves the kind of the join out.
_join_signature_NoKind(join) ==
    "JOIN " \o join.table \o " ON " \o join.on

_join_signature(join) ==
    join.type \o " JOIN " \o join.table \o " ON " \o join.on

\* The notice lists one "for x in S: notices.append(make[x])" loop can append;
\* make maps each element of the set S to its notice.
Loop(make) ==
    {[i \in 1..Len(o) |-> make[o[i]]] : o \in Orderings(DOMAIN make)}

\* The lists two consecutive blocks can append.
Then(X, Y) == {x \o y : x \in X, y \in Y}

\* A differ that forgets to subtract the other side.
Added_NoSubtraction(list_a, list_b) == ToSet(list_b)

\* b - a on the sets of two lists
Added(list_a, list_b) == ToSet(list_b) \ ToSet(list_a)

\* A differ that forgets to subtract the other side.
Removed_NoSubtraction(list_a, list_b) == ToSet(list_a)

\* a - b on the sets of two lists
Removed(list_a, list_b) == ToSet(list_a) \ ToSet(list_b)

\* A differ that compares the SELECT items position by position.
SelectNotices_InOrder(a, b) ==
    LET moved(x, y) == {x[i] : i \in {k \in DOMAIN x : k \notin DOMAIN y \/ x[k] # y[k]}}
    IN  Then(Loop([expr \in moved(a.select_expressions, b.select_expressions) |->
                      DiffNotice(SELECT,
                      "Removed column/expression: " \o _truncate(expr, 60), None, WARN)]),
             Loop([expr \in moved(b.select_expressions, a.select_expressions) |->
                      DiffNotice(SELECT,
                      "Added column/expression: " \o _truncate(expr, 60), None, INFO)]))

SelectNotices(a, b) ==
    Then(Loop([expr \in Removed(a.select_expressions, b.select_expressions) |->
                  DiffNotice(SELECT,
                  "Removed column/expression: " \o _truncate(expr, 60), None, WARN)]),
         Loop([expr \in Added(a.select_expressions, b.select_expressions) |->
                  DiffNotice(SELECT,
                  "Added column/expression: " \o _truncate(expr, 60), None, INFO)]))

FromNotices(a, b) ==
    Then(Loop([table \in Removed(a.from_tables, b.from_tables) |->
                  DiffNotice(FROM, "Removed FROM table: " \o table, None, WARN)]),
         Loop([table \in Added(a.from_tables, b.from_tables) |->
                  DiffNotice(FROM, "Added FROM table: " \o table, None, INFO)]))

joins_set(c) == {_join_signature(c.joins[i]) : i \in DOMAIN c.joins}

JoinNotices(a, b) ==
    Then(Loop([join_sig \in joins_set(a) \ joins_set(b) |->
                  DiffNotice(JOIN, "Removed JOIN: " \o join_sig, None, WARN)]),
         Loop([join_sig \in joins_set(b) \ joins_set(a) |->
                  DiffNotice(JOIN, "Added JOIN: " \o join_sig, None, INFO)]))

WhereNotices(a, b) ==
    Then(Loop([pred \in Removed(a.where_predicates, b.where_predicates) |->
                  DiffNotice(WHERE,
                  "Removed WHERE condition: " \o _truncate(pred, 60), None, WARN)]),
         Loop([pred \in Added(a.where_predicates, b.where_predicates) |->
                  DiffNotice(WHERE,
                  "Added WHERE condition: " \o _truncate(pred, 60), None, INFO)]))

GroupByNotices(a, b) ==
    Then(Loop([col \in Removed(a.group_by, b.group_by) |->
                  DiffNotice(GROUP_BY, "Removed GROUP BY column: " \o col, None, WARN)]),
         Loop([col \in Added(a.group_by, b.group_by) |->
                  DiffNotice(GROUP_BY, "Added GROUP BY column: " \o col, None, INFO)]))

HavingNotices(a, b) ==
    Then(Loop([pred \in Removed(a.having_predicates, b.having_predicates) |->
                  DiffNotice(HAVING,
                  "Removed HAVING condition: " \o _truncate(pred, 60), None, WARN)]),
         Loop([pred \in Added(a.having_predicates, b.having_predicates) |->
                  DiffNotice(HAVING,
                  "Added HAVING condition: " \o _truncate(pred, 60), None, INFO)]))

\* A differ that gives a removed ORDER BY the severity of the other removals.
OrderByNotices_RemovedWarn(a, b) ==
    Then(Loop([col \in Removed(a.order_by, b.order_by) |->
                  DiffNotice(ORDER_BY, "Removed ORDER BY: " \o col, None, WARN)]),
         Loop([col \in Added(a.order_by, b.order_by) |->
                  DiffNotice(ORDER_BY, "Added ORDER BY: " \o col, None, INFO)]))

OrderByNotices(a, b) ==
    Then(Loop([col \in Removed(a.order_by, b.order_by) |->
                  DiffNotice(ORDER_BY, "Removed ORDER BY: " \o col, None, INFO)]),
         Loop([col \in Added(a.order_by, b.order_by) |->
                  DiffNotice(ORDER_BY, "Added ORDER BY: " \o col, None, INFO)]))

\* The 3-way rule shared by LIMIT and OFFSET; word is "LIMIT" or "OFFSET".
\* A rule that knows a removal and an addition only.
LimitRule_TwoWay(word, value_a, value_b) ==
    IF value_a # value_b
    THEN IF Truthy(value_a)
         THEN <<DiffNotice(LIMIT, "Removed " \o word \o " " \o value_a, None, INFO)>>
         ELSE <<DiffNotice(LIMIT, "Added " \o word \o " " \o value_b, None, INFO)>>
    ELSE <<>>

LimitRule(word, value_a, value_b) ==
    IF value_a # value_b
    THEN IF Truthy(value_a) /\ ~Truthy(value_b)
         THEN <<DiffNotice(LIMIT, "Removed " \o word \o " " \o value_a, None, INFO)>>
         ELSE IF ~Truthy(value_a) /\ Truthy(value_b)
         THEN <<DiffNotice(LIMIT, "Added " \o word \o " " \o value_b, None, INFO)>>
         ELSE <<DiffNotice(LIMIT,
                  "Changed " \o word \o " from " \o value_a \o " to " \o value_b,
                  None, INFO)>>
    ELSE <<>>

LimitNotices(a, b) == LimitRule("LIMIT", a.limit, b.limit)

OffsetNotices(a, b) == LimitRule("OFFSET", a.offset, b.offset)

\* subqueries_x_by_location: location -> list of bodies, in list order
RECURSIVE Bodies(_)
Bodies(subqueries) ==
    IF subqueries = <<>> THEN <<>>
    ELSE <<Head(subqueries).sql>> \o Bodies(Tail(subqueries))

by_location(subqueries) ==
    [loc \in {subqueries[i].location : i \in DOMAIN subqueries} |->
        Bodies(SelectSeq(subqueries, LAMBDA sq : sq.location = loc))]

\* dict.get(location, [])
Get(d, location) == IF location \in DOMAIN d THEN d[location] ELSE <<>>

all_locations(a, b) ==
    DOMAIN by_location(a.subqueries) \cup DOMAIN by_location(b.subqueries)

\* A summary that never tells the occurrences.
SubquerySummary_NoOccurrences(verb, location, count) ==
    verb \o " subquery in " \o location

\* The summary of a removed or added subquery body occurring count times.
SubquerySummary(verb, location, count) ==
    verb \o " subquery in " \o location
    \o (IF count > 1 THEN " (" \o ToString(count) \o " occurrences)" ELSE "")

\* One pass of the first loop over all_locations: the notices of one location.
LocationNotices(a, b, location) ==
    LET list_a == Get(by_location(a.subqueries), location)
        list_b == Get(by_location(b.subqueries), location)
    IN  Then(Loop([sq_sql \in Removed(list_a, list_b) |->
                  DiffNotice(SUBQUERY,
                      SubquerySummary("Removed", location, Count(list_a, sq_sql)),
                      _truncate(sq_sql, 150), WARN)]),
             Loop([sq_sql \in Added(list_a, list_b) |->
                  DiffNotice(SUBQUERY,
                      SubquerySummary("Added", location, Count(list_b, sq_sql)),
                      _truncate(sq_sql, 150), INFO)]))

\* The first loop, visiting the locations in the order locs.
RECURSIVE SubqueryDiffNotices(_, _, _)
SubqueryDiffNotices(a, b, locs) ==
    IF locs = <<>> THEN {<<>>}
    ELSE Then(LocationNotices(a, b, Head(locs)), SubqueryDiffNotices(a, b, Tail(locs)))

\* A count change that counts the distinct bodies of a location.
CountNotice_DistinctBodies(a, b, location) ==
    LET count_a == Cardinality(ToSet(Get(by_location(a.subqueries), location)))
        count_b == Cardinality(ToSet(Get(by_location(b.subqueries), location)))
    IN  IF count_a # count_b /\ count_a > 0 /\ count_b > 0
        THEN IF count_b > count_a
             THEN <<DiffNotice(SUBQUERY,
                      "Increased subquery count in " \o location \o ": "
                      \o ToString(count_a) \o " -> " \o ToString(count_b), None, INFO)>>
             ELSE <<DiffNotice(SUBQUERY,
                      "Decreased subquery count in " \o location \o ": "
                      \o ToString(count_a) \o " -> " \o ToString(count_b), None, WARN)>>
        ELSE <<>>

\* One pass of the second loop: the count-change notice of one location, if any.
\* The arrow of the summary is written "->" here.
CountNotice(a, b, location) ==
    LET count_a == Len(Get(by_location(a.subqueries), location))
        count_b == Len(Get(by_location(b.subqueries), location))
    IN  IF count_a # count_b /\ count_a > 0 /\ count_b > 0
        THEN IF count_b > count_a
             THEN <<DiffNotice(SUBQUERY,
                      "Increased subquery count in " \o location \o ": "
                      \o ToString(count_a) \o " -> " \o ToString(count_b), None, INFO)>>
             ELSE <<DiffNotice(SUBQUERY,
                      "Decreased subquery count in " \o location \o ": "
                      \o ToString(count_a) \o " -> " \o ToString(count_b), None, WARN)>>
        ELSE <<>>

\* The second loop, visiting the locations in the order locs.
RECURSIVE SubqueryCountNotices(_, _, _)
SubqueryCountNotices(a, b, locs) ==
    IF locs = <<>> THEN <<>>
    ELSE CountNotice(a, b, Head(locs)) \o SubqueryCountNotices(a, b, Tail(locs))

\* Both loops iterate the same unmodified set object, hence in the same order.
SubqueryNotices(a, b) ==
    UNION {Then(SubqueryDiffNotices(a, b, locs), {SubqueryCountNotices(a, b, locs)})
           : locs \in Orderings(all_locations(a, b))}

\* A differ that reports the subqueries before the LIMIT and the OFFSET.
generate_semantic_notices_SubqueriesEarly(a, b) ==
    Then(SelectNotices(a, b),
    Then(FromNotices(a, b),
    Then(JoinNotices(a, b),
    Then(WhereNotices(a, b),
    Then(GroupByNotices(a, b),
    Then(HavingNotices(a, b),
    Then(OrderByNotices(a, b),
    Then(SubqueryNotices(a, b),
    Then({LimitNotices(a, b)},
         {OffsetNotices(a, b)})))))))))

\* The lists generate_semantic_notices(a, b) can return.
generate_semantic_notices(a, b) ==
    Then(SelectNotices(a, b),
    Then(FromNotices(a, b),
    Then(JoinNotices(a, b),
    Then(WhereNotices(a, b),
    Then(GroupByNotices(a, b),
    Then(HavingNotices(a, b),
    Then(OrderByNotices(a, b),
    Then({LimitNotices(a, b)},
    Then({OffsetNotices(a, b)},
         SubqueryNotices(a, b))))))))))

(***************************************************************************)
(* Calls of the differ on the extracted component models.                  *)
(***************************************************************************)
NoCall == <<>>

\* Records one call generate_semantic_notices(x, y) and what it returned.
Called(x, y) ==
    \E out \in generate_semantic_notices(Components(x), Components(y)) :
        /\ pc' = "diff"
        /\ call' = <<x, y>>
        /\ notices' = out
        /\ prev_call' = call
        /\ prev_notices' = notices
        /\ UNCHANGED <<components_a, components_b, ast>>
        /\ UNCHANGED compare_vars
        /\ UNCHANGED validator_vars

\* A caller runs the differ on the extracted component models: on (a, b), or on
\* (a, a).
CallDiffer ==
    \E y \in Sides :
        /\ call = NoCall
        /\ Called("a", y)

\* The caller runs the differ a second time, on the same arguments or on the two
\* arguments swapped.  The model follows two calls.
CallAgain ==
    \E x \in Sides, y \in Sides :
        /\ call # NoCall
        /\ prev_call = NoCall
        /\ {x, y} = {call[1], call[2]}
        /\ Called(x, y)

(***************************************************************************)
(* Query texts and the sqlglot collaborator, on a sample of queries.       *)
(* A text is its list of lines; a line is its leading whitespace width and *)
(* the rest of the line.                                                   *)
(***************************************************************************)
Line(indent, text) == [indent |-> indent, text |-> text]

\* Absent argument of a parsed node (args.get(...) is None).
NoArg == "<no arg>"

\* A parsed SELECT with the given projections, FROM target and LIMIT.
Select(expressions, from_, limit) ==
    [expressions |-> expressions, from_ |-> from_, joins |-> <<>>,
     where |-> [kind |-> NoArg], group |-> <<>>, having |-> [kind |-> NoArg],
     order |-> <<>>, limit |-> limit, offset |-> NoArg, subqueries |-> <<>>]

Column(name) == [this |-> name, alias |-> ""]

\* The sample queries as typed by a user, each with what sqlglot.parse_one does
\* with it: it returns a tree, or raises an error of some type with some message.
SampleQueries ==
    {[text |-> <<Line(0, "SELECT id FROM users")>>,
      raised |-> FALSE, tree |-> Select(<<Column("id")>>, "users", NoArg)],
     [text |-> <<Line(0, "select ID from users")>>,
      raised |-> FALSE, tree |-> Select(<<Column("ID")>>, "users", NoArg)],
     [text |-> <<Line(0, ""), Line(4, "SELECT id, name"),
                 Line(4, "FROM users LIMIT 10"), Line(4, "")>>,
      raised |-> FALSE,
      tree |-> Select(<<Column("id"), Column("name")>>, "users", "LIMIT 10")],
     [text |-> <<Line(0, "SELECT id FROM logs")>>,
      raised |-> FALSE, tree |-> Select(<<Column("id")>>, "logs", NoArg)],
     [text |-> <<Line(0, "INVALID SQL QUERY @#$%")>>,
      raised |-> TRUE, type |-> "ParseError",
      message |-> "Invalid expression / Unexpected token. Line 1, Col: 11."],
     [text |-> <<Line(0, "SELECT 'abc")>>,
      raised |-> TRUE, type |-> "TokenError",
      message |-> "Error tokenizing 'SELECT 'abc'"]}

\* Identifier normalization of sql(normalize=True): unquoted identifiers are
\* lower-cased.
LowerIdentifier(name) == IF name = "ID" THEN "id" ELSE name

NormalizeTree(tree) ==
    [tree EXCEPT !.expressions =
        [i \in DOMAIN @ |-> [@[i] EXCEPT !.this = LowerIdentifier(@)]]]

\* parsed.sql(pretty=True) of a sample tree: one clause keyword per line, the
\* projections on lines of their own, indented by two and separated by commas.
PrettySql(tree) ==
    <<Line(0, "SELECT")>>
    \o [i \in DOMAIN tree.expressions |->
          Line(2, SelectEntry(tree.expressions[i])
                  \o (IF i < Len(tree.expressions) THEN "," ELSE ""))]
    \o <<Line(0, "FROM " \o tree.from_)>>
    \o (IF tree.limit # NoArg THEN <<Line(0, tree.limit)>> ELSE <<>>)

SampleTrees == {q.tree : q \in {s \in SampleQueries : ~s.raised}}

\* The re-serialized texts the parser reads back.  The serializer writes the
\* default dialect whatever dialect the parser reads, so not every
\* re-serialization is read back: the one of the "logs" query stands for these.
ReadBack ==
    {tree \in {NormalizeTree(t) : t \in SampleTrees} \cup SampleTrees :
        tree.from_ # "logs"}

\* sqlglot.parse_one(sql)
ParseOne(sql) ==
    IF \E q \in SampleQueries : q.text = sql
    THEN CHOOSE q \in SampleQueries : q.text = sql
    ELSE IF \E tree \in ReadBack : PrettySql(tree) = sql
    THEN [raised |-> FALSE, tree |-> CHOOSE tree \in ReadBack : PrettySql(tree) = sql]
    ELSE [raised |-> TRUE, type |-> "ParseError",
          message |-> "Invalid expression / Unexpected token. Line 1, Col: 1."]

\* normalize_sql(sql): the normalized text, or the error parse_one raises.
normalize_sql(sql) ==
    LET parsed == ParseOne(sql)
    IN  IF parsed.raised THEN parsed
        ELSE [raised |-> FALSE, value |-> PrettySql(NormalizeTree(parsed.tree))]

\* extract_components keeping the WHERE expression whole.
ComponentsOf_WholeWhere(parsed) ==
    [select_expressions |->
        [i \in DOMAIN parsed.expressions |-> SelectEntry(parsed.expressions[i])],
     from_tables |-> IF parsed.from_ # NoArg THEN <<parsed.from_>> ELSE <<>>,
     joins |-> [i \in DOMAIN parsed.joins |-> JoinInfo(parsed.joins[i])],
     where_predicates |->
        IF parsed.where.kind # NoArg THEN <<Sql(parsed.where)>> ELSE <<>>,
     group_by |-> parsed.group,
     having_predicates |->
        IF parsed.having.kind # NoArg THEN _split_predicates(parsed.having) ELSE <<>>,
     order_by |-> [i \in DOMAIN parsed.order |-> OrderEntry(parsed.order[i])],
     limit |-> IF parsed.limit # NoArg THEN parsed.limit ELSE None,
     offset |-> IF parsed.offset # NoArg THEN parsed.offset ELSE None,
     subqueries |->
        [i \in DOMAIN parsed.subqueries |-> SubqueryEntry(parsed.subqueries[i])]]

\* The SQLComponents extract_components builds from a parsed tree.
ComponentsOf(parsed) ==
    [select_expressions |->
        [i \in DOMAIN parsed.expressions |-> SelectEntry(parsed.expressions[i])],
     from_tables |-> IF parsed.from_ # NoArg THEN <<parsed.from_>> ELSE <<>>,
     joins |-> [i \in DOMAIN parsed.joins |-> JoinInfo(parsed.joins[i])],
     where_predicates |->
        IF parsed.where.kind # NoArg THEN _split_predicates(parsed.where) ELSE <<>>,
     group_by |-> parsed.group,
     having_predicates |->
        IF parsed.having.kind # NoArg THEN _split_predicates(parsed.having) ELSE <<>>,
     order_by |-> [i \in DOMAIN parsed.order |-> OrderEntry(parsed.order[i])],
     limit |-> IF parsed.limit # NoArg THEN parsed.limit ELSE None,
     offset |-> IF parsed.offset # NoArg THEN parsed.offset ELSE None,
     subqueries |->
        [i \in DOMAIN parsed.subqueries |-> SubqueryEntry(parsed.subqueries[i])]]

\* extract_components(sql): the components, or the error parse_one raises.
extract_components(sql) ==
    LET parsed == ParseOne(sql)
    IN  IF parsed.raised THEN parsed
        ELSE [raised |-> FALSE, value |-> ComponentsOf(parsed.tree)]

\* The texts given to compare_sql: the sample queries and their pretty forms.
Texts ==
    {q.text : q \in SampleQueries}
    \cup {PrettySql(NormalizeTree(t)) : t \in {u \in SampleTrees : u.from_ # "logs"}}

(***************************************************************************)
(* diff_engine.py: generate_text_diff                                      *)
(***************************************************************************)
\* [line.strip() for line in lines if line.strip()]
RECURSIVE StripLines(_)
StripLines(lines) ==
    IF lines = <<>> THEN <<>>
    ELSE (IF Head(lines).text # "" THEN <<Line(0, Head(lines).text)>> ELSE <<>>)
         \o StripLines(Tail(lines))

\* Length of the longest common prefix of two line lists.
RECURSIVE CommonPrefix(_, _)
CommonPrefix(x, y) ==
    IF x # <<>> /\ y # <<>> /\ Head(x) = Head(y)
    THEN 1 + CommonPrefix(Tail(x), Tail(y))
    ELSE 0

Reverse(x) == [i \in 1..Len(x) |-> x[Len(x) + 1 - i]]

DiffLine(tag, line) == [tag |-> tag, indent |-> line.indent, text |-> line.text]

Tagged(tag, lines) == [i \in DOMAIN lines |-> DiffLine(tag, lines[i])]

\* difflib.unified_diff(lines_a, lines_b, fromfile="SQL A", tofile="SQL B") for
\* texts that fit in one hunk: nothing when the lists are equal, else the two
\* file headers, the hunk header, the common leading lines, the lines of A only
\* ("-"), the lines of B only ("+") and the common trailing lines.
unified_diff(lines_a, lines_b) ==
    IF lines_a = lines_b THEN <<>>
    ELSE LET p == CommonPrefix(lines_a, lines_b)
             rest_a == SubSeq(lines_a, p + 1, Len(lines_a))
             rest_b == SubSeq(lines_b, p + 1, Len(lines_b))
             q == CommonPrefix(Reverse(rest_a), Reverse(rest_b))
         IN  <<DiffLine("---", Line(0, "SQL A")), DiffLine("+++", Line(0, "SQL B")),
               DiffLine("@@", Line(0, "-1," \o ToString(Len(lines_a)) \o " +1,"
                                      \o ToString(Len(lines_b))))>>
             \o Tagged(" ", SubSeq(lines_a, 1, p))
             \o Tagged("-", SubSeq(rest_a, 1, Len(rest_a) - q))
             \o Tagged("+", SubSeq(rest_b, 1, Len(rest_b) - q))
             \o Tagged(" ", SubSeq(rest_a, Len(rest_a) - q + 1, Len(rest_a)))

generate_text_diff(text_a, text_b, ignore_whitespace) ==
    IF ignore_whitespace
    THEN unified_diff(StripLines(text_a), StripLines(text_b))
    ELSE unified_diff(text_a, text_b)

(***************************************************************************)
(* diff_engine.py: compare_sql                                             *)
(***************************************************************************)
\* None in a field that otherwise holds a text.
NoText == <<Line(-1, None)>>

NoResult == [returned |-> FALSE]

\* An orchestrator that reports the message of the failure without its type.
ParseErrorText_MessageOnly(e) == "Semantic diff unavailable: " \o e.message

\* f"Semantic diff unavailable: {type(e).__name__}: {str(e)}"
ParseErrorText(e) == "Semantic diff unavailable: " \o e.type \o ": " \o e.message

\* The local variables of compare_sql when it reaches "Generate text diff", after
\* the try block ended normally with one of the notice lists in outs.
Completed(compare_a, compare_b, norm_a, norm_b, outs) ==
    {[compare_a |-> compare_a, compare_b |-> compare_b,
      sql_a_normalized |-> norm_a, sql_b_normalized |-> norm_b,
      parse_error |-> None, notices |-> out] : out \in outs}

\* The same after the except clause caught e.
Caught(compare_a, compare_b, norm_a, norm_b, e) ==
    {[compare_a |-> compare_a, compare_b |-> compare_b,
      sql_a_normalized |-> norm_a, sql_b_normalized |-> norm_b,
      parse_error |-> ParseErrorText(e), notices |-> <<DiffNotice(GENERAL, "Parse error - semantic diff unavailable",
                               ParseErrorText(e), WARN)>>]}

\* Lines 607-609: extract both component models and diff them.
ExtractAndDiff(a, b, compare_a, compare_b, norm_a, norm_b) ==
    LET ca == extract_components(compare_a)
        cb == extract_components(compare_b)
    IN  IF ca.raised THEN Caught(compare_a, compare_b, norm_a, norm_b, ca)
        ELSE IF cb.raised THEN Caught(compare_a, compare_b, norm_a, norm_b, cb)
        ELSE Completed(compare_a, compare_b, norm_a, norm_b,
                       generate_semantic_notices(ca.value, cb.value))

\* An orchestrator that takes each normalized text for the text diff as soon as
\* it has it.
SemanticStage_OneByOne(a, b, normalize, semantic_diff) ==
    IF ~semantic_diff THEN Completed(a, b, NoText, NoText, {<<>>})
    ELSE IF ~normalize THEN ExtractAndDiff(a, b, a, b, NoText, NoText)
    ELSE LET na == normalize_sql(a)
             nb == normalize_sql(b)
         IN  IF na.raised THEN Caught(a, b, NoText, NoText, na)
             ELSE IF nb.raised THEN Caught(na.value, b, na.value, NoText, nb)
             ELSE ExtractAndDiff(a, b, na.value, nb.value, na.value, nb.value)

\* Lines 585-620: the locals before the text diff.
SemanticStage(a, b, normalize, semantic_diff) ==
    IF ~semantic_diff THEN Completed(a, b, NoText, NoText, {<<>>})
    ELSE IF ~normalize THEN ExtractAndDiff(a, b, a, b, NoText, NoText)
    ELSE LET na == normalize_sql(a)
             nb == normalize_sql(b)
         IN  IF na.raised THEN Caught(a, b, NoText, NoText, na)
             ELSE IF nb.raised THEN Caught(a, b, na.value, NoText, nb)
             ELSE ExtractAndDiff(a, b, na.value, nb.value, na.value, nb.value)

\* The ComparisonResult values compare_sql can return.
compare_sql(a, b, normalize, ignore_whitespace, semantic_diff) ==
    {[returned |-> TRUE,
      text_diff |-> generate_text_diff(l.compare_a, l.compare_b, ignore_whitespace),
      notices |-> l.notices,
      sql_a_normalized |-> l.sql_a_normalized,
      sql_b_normalized |-> l.sql_b_normalized,
      parse_error |-> l.parse_error]
     : l \in SemanticStage(a, b, normalize, semantic_diff)}

\* A caller runs compare_sql on the two texts under the configuration.
CompareSql ==
    /\ ~result.returned
    /\ result' \in compare_sql(sql_a, sql_b, config.normalize,
                               config.ignore_whitespace, config.semantic_diff)
    /\ UNCHANGED <<sql_a, sql_b, config>>
    /\ UNCHANGED diff_vars
    /\ UNCHANGED validator_vars

(***************************************************************************)
(* Specifications.                                                         *)
(***************************************************************************)
\* The differ: two component models are extracted, then compared.
InitDiff ==
    /\ components_a = EmptyComponents
    /\ components_b = EmptyComponents
    /\ pc = "extract"
    /\ call = NoCall
    /\ notices = <<>>
    /\ prev_call = NoCall
    /\ prev_notices = <<>>
    /\ ast = None

\* The validator has returned nothing yet.
NoReply == [method |-> "none"]

\* No validator call.
IdleValidator ==
    /\ input_sql = ""
    /\ parse_result = [kind |-> "none"]
    /\ origin = None
    /\ reply = NoReply

\* No compare_sql call.
IdleCompare ==
    /\ sql_a = <<>>
    /\ sql_b = <<>>
    /\ config = [normalize |-> TRUE, ignore_whitespace |-> TRUE, semantic_diff |-> TRUE]
    /\ result = NoResult

Init == InitDiff /\ IdleCompare /\ IdleValidator

Next ==
    \/ ExtractSelect
    \/ ExtractFrom
    \/ ExtractJoin
    \/ ExtractWhere
    \/ ExtractGroupBy
    \/ ExtractHaving
    \/ ExtractOrderBy
    \/ ExtractLimit
    \/ ExtractOffset
    \/ ExtractSubquery
    \/ CallDiffer

Spec == Init /\ [][Next]_vars

\* The differ called twice on the same pair of component models.
NextTwice == Next \/ CallAgain

SpecTwice == Init /\ [][NextTwice]_vars

\* The differ on two lists of joins.
JoinLists == UNION {[1..n -> {JoinInfo(join) : join \in JoinNodes}] : n \in 0..MaxJoins}

InitJoins ==
    /\ components_a \in {[EmptyComponents EXCEPT !.joins = joins] : joins \in JoinLists}
    /\ components_b \in {[EmptyComponents EXCEPT !.joins = joins] : joins \in JoinLists}
    /\ pc = "diff"
    /\ call = NoCall
    /\ notices = <<>>
    /\ prev_call = NoCall
    /\ prev_notices = <<>>
    /\ ast = None
    /\ IdleCompare
    /\ IdleValidator

NextJoins == CallDiffer

SpecJoins == InitJoins /\ [][NextJoins]_vars

\* The orchestrator: compare_sql on two texts under a configuration.
InitCompare ==
    /\ InitDiff
    /\ sql_a \in Texts
    /\ sql_b \in Texts
    /\ config \in [normalize : BOOLEAN, ignore_whitespace : BOOLEAN, semantic_diff : BOOLEAN]
    /\ result = NoResult
    /\ IdleValidator

NextCompare == CompareSql

SpecCompare == InitCompare /\ [][NextCompare]_vars


\* The differ on two queries that differ in every clause of a set of clauses.
\* The parsed nodes of query A and of query B, clause by clause.
ClausesA ==
    [select |-> <<[this |-> "id", alias |-> ""]>>,
     from_ |-> <<"users">>,
     joins |-> <<[side |-> "", this |-> "orders AS o", on |-> "u.id = o.user_id"]>>,
     where |-> <<And(Leaf("a = 1"), Leaf("b = 2"))>>,
     group |-> <<"category">>,
     having |-> <<Leaf("COUNT(*) > 5")>>,
     order |-> <<[this |-> "id", desc |-> FALSE]>>,
     limit |-> "LIMIT 10",
     offset |-> "OFFSET 5",
     subqueries |-> <<[parent |-> "Alias", grandparent |-> "Select", walk_select |-> TRUE,
                       this |-> "SELECT user_id FROM orders"]>>]

ClausesB ==
    [select |-> <<[this |-> "COUNT(*)", alias |-> "n"]>>,
     from_ |-> <<"orders">>,
     joins |-> <<[side |-> "LEFT", this |-> "orders AS o", on |-> "u.id = o.user_id"]>>,
     where |-> <<Or(Leaf("a = 1"), Leaf("b = 2"))>>,
     group |-> <<"region">>,
     having |-> <<Leaf("SUM(x) > 0")>>,
     order |-> <<[this |-> "id", desc |-> TRUE]>>,
     limit |-> "LIMIT 20",
     offset |-> "OFFSET 10",
     subqueries |-> <<[parent |-> "Alias", grandparent |-> "Select", walk_select |-> TRUE,
                       this |-> "SELECT MAX(total) FROM orders"],
                      [parent |-> "Alias", grandparent |-> "Select", walk_select |-> TRUE,
                       this |-> "SELECT MAX(total) FROM orders"]>>]

\* The component model extract_components builds from the clauses of a query.
Extracted(q) ==
    [select_expressions |-> [i \in DOMAIN q.select |-> SelectEntry(q.select[i])],
     from_tables |-> q.from_,
     joins |-> [i \in DOMAIN q.joins |-> JoinInfo(q.joins[i])],
     where_predicates |-> IF q.where = <<>> THEN <<>> ELSE _split_predicates(q.where[1]),
     group_by |-> q.group,
     having_predicates |-> IF q.having = <<>> THEN <<>> ELSE _split_predicates(q.having[1]),
     order_by |-> [i \in DOMAIN q.order |-> OrderEntry(q.order[i])],
     limit |-> q.limit,
     offset |-> q.offset,
     subqueries |-> [i \in DOMAIN q.subqueries |-> SubqueryEntry(q.subqueries[i])]]

Only(q, present) ==
    LET NoClauses ==
            [select |-> <<>>, from_ |-> <<>>, joins |-> <<>>, where |-> <<>>,
             group |-> <<>>, having |-> <<>>, order |-> <<>>, limit |-> None,
             offset |-> None, subqueries |-> <<>>]
    IN  [f \in DOMAIN q |-> IF f \in present THEN q[f] ELSE NoClauses[f]]

InitOrder ==
    /\ \E present \in SUBSET DOMAIN ClausesA :
          /\ components_a = Extracted(Only(ClausesA, present))
          /\ components_b = Extracted(Only(ClausesB, present))
    /\ pc = "diff"
    /\ call = NoCall
    /\ notices = <<>>
    /\ prev_call = NoCall
    /\ prev_notices = <<>>
    /\ ast = None
    /\ IdleCompare
    /\ IdleValidator

NextOrder == CallDiffer

SpecOrder == InitOrder /\ [][NextOrder]_vars

\* extract_components on one parsed query: the component model of one side is
\* built from the tree.
ExtractComponents ==
    \E side \in Sides :
        /\ pc = "extract"
        /\ Components(side) = EmptyComponents
        /\ Store(side, ComponentsOf(ast))

\* The extractor on parsed queries with a WHERE or HAVING expression tree of up
\* to MaxPredicates leaf predicates joined by AND and OR, with and without
\* parentheses, or with up to two Subquery nodes.  A Subquery node carries its
\* ancestors (kind of the node, argument the descendant hangs under), nearest
\* first; the root has none.
InitExtract ==
    LET Predicates == <<"a = 1", "b = 2", "c = 3", "d = 4", "e = 5", "f = 6">>
        RECURSIVE TreesOver(_, _)
        \* the trees whose leaves are the predicates lo..hi, from left to right
        TreesOver(lo, hi) ==
            IF lo = hi THEN {Leaf(Predicates[lo])}
            ELSE UNION {{And(l, r) : l \in TreesOver(lo, k), r \in TreesOver(k + 1, hi)}
                        \cup {Or(l, r) : l \in TreesOver(lo, k), r \in TreesOver(k + 1, hi)}
                        \cup {[kind |-> "Paren", this |-> And(l, r)]
                                : l \in TreesOver(lo, k), r \in TreesOver(k + 1, hi)}
                        \cup {[kind |-> "Paren", this |-> Or(l, r)]
                                : l \in TreesOver(lo, k), r \in TreesOver(k + 1, hi)}
                            : k \in lo..(hi - 1)}
        PredicateTrees == UNION {TreesOver(1, n) : n \in 1..MaxPredicates}
        Under(kind, arg) == [kind |-> kind, arg |-> arg]
        KindAt(ancestors, i) == IF Len(ancestors) >= i THEN ancestors[i].kind ELSE None
        Found(ancestors, body) ==
            [parent |-> KindAt(ancestors, 1), grandparent |-> KindAt(ancestors, 2),
             walk_select |-> TRUE, this |-> body, ancestors |-> ancestors]
        InWhere == <<Under("Where", "this"), Under("Select", "where")>>
        InHaving == <<Under("Having", "this"), Under("Select", "having")>>
        InList == <<Under("Select", "expressions")>>
        Nested == <<Under("Select", "where"), Under("Subquery", "this"),
                    Under("Alias", "this")>> \o InList
        Contexts ==
            {<<>>,
             <<Under("In", "query")>> \o InWhere,
             <<Under("Exists", "this")>> \o InWhere,
             InWhere,
             <<Under("From", "this"), Under("Select", "from_")>>,
             <<Under("Join", "this"), Under("Select", "joins")>>,
             InHaving,
             <<Under("Alias", "this")>> \o InList,
             InList,
             <<Under("Add", "expression"), Under("Alias", "this")>> \o InList,
             <<Under("EQ", "expression")>> \o InWhere,
             <<Under("GT", "expression")>> \o InHaving,
             <<Under("In", "query"), Under("And", "expression")>> \o InWhere,
             <<Under("EQ", "expression"), Under("Where", "this")>> \o Nested,
             <<Under("In", "query"), Under("Where", "this")>> \o Nested}
        InnerQueries == {"SELECT user_id FROM orders", "SELECT MAX(total) FROM orders"}
        Nodes == {Found(ancestors, body) : ancestors \in Contexts, body \in InnerQueries}
        Query == Select(<<Column("id")>>, "users", NoArg)
        Trees ==
            {[Query EXCEPT !.where = where_expr] : where_expr \in PredicateTrees}
            \cup {[Query EXCEPT !.having = having_expr] : having_expr \in PredicateTrees}
            \cup {[Query EXCEPT !.subqueries = <<subquery>>] : subquery \in Nodes}
            \cup {[Query EXCEPT !.subqueries = <<first, second>>]
                    : first \in Nodes, second \in Nodes}
    IN  /\ components_a = EmptyComponents
        /\ components_b = EmptyComponents
        /\ pc = "extract"
        /\ call = NoCall
        /\ notices = <<>>
        /\ prev_call = NoCall
        /\ prev_notices = <<>>
        /\ ast \in Trees
        /\ IdleCompare
        /\ IdleValidator

NextExtract == ExtractComponents

SpecExtract == InitExtract /\ [][NextExtract]_vars

\* The differ on two component models that differ in one list-valued field, or in
\* all of them at once.  The lists hold a short text, a text of exactly 60
\* characters and a text of 61 characters, in any order and with repeats; a
\* FROM list holds at most one table, as extract_components builds it; the
\* subquery bodies are a short one, one of exactly 150 characters and one of 151.
InitLists ==
    LET Entries ==
            {"id",
             "COALESCE(c.preferred_name, c.first_name, c.last_name, 'n/a')",
             "COALESCE(c.preferred_names, c.first_name, c.last_name, 'n/a')"}
        InnerQueries ==
            {"SELECT 1",
             "SELECT o.customer_id FROM orders AS o WHERE o.status = 'shipped' AND "
             \o "o.total_amount > 100 AND o.created_at >= '2024-01-01' AND "
             \o "o.region = 'EU' LIMIT 9",
             "SELECT o.customer_id FROM orders AS o WHERE o.status = 'shipped' AND "
             \o "o.total_amount > 1000 AND o.created_at >= '2024-01-01' AND "
             \o "o.region = 'EU' LIMIT 9"}
        ListsOver(S, longest) == UNION {[1..n -> S] : n \in 0..longest}
        TextLists == ListsOver(Entries, MaxListLength)
        InnerJoins(list) ==
            [i \in DOMAIN list |->
                [type |-> "INNER", table |-> "customers AS c", on |-> list[i]]]
        Inner(list) ==
            [i \in DOMAIN list |-> [location |-> "WHERE-IN", sql |-> list[i]]]
        With(field, list) ==
            CASE field = "select_expressions" ->
                    [EmptyComponents EXCEPT !.select_expressions = list]
              [] field = "from_tables" ->
                    [EmptyComponents EXCEPT
                        !.from_tables = IF list = <<>> THEN <<>> ELSE <<list[1]>>]
              [] field = "joins" -> [EmptyComponents EXCEPT !.joins = InnerJoins(list)]
              [] field = "where_predicates" ->
                    [EmptyComponents EXCEPT !.where_predicates = list]
              [] field = "group_by" -> [EmptyComponents EXCEPT !.group_by = list]
              [] field = "having_predicates" ->
                    [EmptyComponents EXCEPT !.having_predicates = list]
              [] field = "order_by" -> [EmptyComponents EXCEPT !.order_by = list]
              [] field = "subqueries" ->
                    [EmptyComponents EXCEPT !.subqueries = Inner(list)]
              [] field = "all" ->
                    [EmptyComponents EXCEPT
                        !.select_expressions = list, !.joins = InnerJoins(list),
                        !.where_predicates = list, !.group_by = list,
                        !.having_predicates = list, !.order_by = list]
        Fields ==
            {"select_expressions", "from_tables", "joins", "where_predicates",
             "group_by", "having_predicates", "order_by", "all"}
        Pairs ==
            {<<With(field, x), With(field, y)>> :
                field \in Fields, x \in TextLists, y \in TextLists}
            \cup {<<With("subqueries", x), With("subqueries", y)>> :
                    x \in ListsOver(InnerQueries, MaxListLength),
                    y \in ListsOver(InnerQueries, MaxListLength)}
    IN  /\ \E pair \in Pairs : components_a = pair[1] /\ components_b = pair[2]
        /\ pc = "diff"
        /\ call = NoCall
        /\ notices = <<>>
        /\ prev_call = NoCall
        /\ prev_notices = <<>>
        /\ ast = None
        /\ IdleCompare
        /\ IdleValidator

NextLists == CallDiffer

SpecLists == InitLists /\ [][NextLists]_vars

(***************************************************************************)
(* The validator (sql_validator.py): SQLValidator's structural checks on   *)
(* the text, its use of the parser, and the beautifier.                    *)
(***************************************************************************)
(***************************************************************************)
(* Python strings, as sql_validator.py uses them.  A text is a string; its *)
(* lines are separated by "\n".                                            *)
(***************************************************************************)
Char(s, i) == SubSeq(s, i, i)

Whitespace == {" ", "\n", "\t", "\r"}

\* \w of the re module
WordChar(c) ==
    \E i \in 1..63 :
        Char("abcdefghijklmnopqrstuvwxyzABCDEFGHIJKLMNOPQRSTUVWXYZ0123456789_", i) = c

\* str.upper(), half by half
RECURSIVE upper(_)
upper(s) ==
    IF Len(s) = 0 THEN ""
    ELSE IF Len(s) = 1
    THEN LET letter == {i \in 1..26 : Char("abcdefghijklmnopqrstuvwxyz", i) = s}
         IN  IF letter = {} THEN s
             ELSE Char("ABCDEFGHIJKLMNOPQRSTUVWXYZ", CHOOSE i \in letter : TRUE)
    ELSE upper(SubSeq(s, 1, Len(s) \div 2)) \o upper(SubSeq(s, Len(s) \div 2 + 1, Len(s)))

\* str.strip()
strip(s) ==
    LET inked == {i \in 1..Len(s) : Char(s, i) \notin Whitespace}
    IN  IF inked = {} THEN ""
        ELSE SubSeq(s, CHOOSE i \in inked : \A j \in inked : i <= j,
                       CHOOSE i \in inked : \A j \in inked : i >= j)

\* str.split('\n')
RECURSIVE split_lines(_)
split_lines(s) ==
    LET breaks == {i \in 1..Len(s) : Char(s, i) = "\n"}
    IN  IF breaks = {} THEN <<s>>
        ELSE LET first == CHOOSE i \in breaks : \A j \in breaks : i <= j
             IN  <<SubSeq(s, 1, first - 1)>> \o split_lines(SubSeq(s, first + 1, Len(s)))

\* sorted(S) of a set of integers
RECURSIVE sorted(_)
sorted(S) ==
    IF S = {} THEN <<>>
    ELSE LET least == CHOOSE x \in S : \A y \in S : x <= y
         IN  <<least>> \o sorted(S \ {least})

\* ', '.join(strings)
RECURSIVE JoinStrings(_)
JoinStrings(strings) ==
    IF strings = <<>> THEN ""
    ELSE IF Len(strings) = 1 THEN strings[1]
    ELSE strings[1] \o ", " \o JoinStrings(Tail(strings))

\* ', '.join(map(str, numbers[:n]))
JoinNumbers(numbers, n) ==
    JoinStrings([i \in 1..(IF Len(numbers) < n THEN Len(numbers) ELSE n)
                    |-> ToString(numbers[i])])

\* re.findall(r"'[^']*'", s): the single-quoted literals of a text, in order
RECURSIVE QuotedStrings(_)
QuotedStrings(s) ==
    LET quotes == {i \in 1..Len(s) : Char(s, i) = "'"}
    IN  IF Cardinality(quotes) < 2 THEN <<>>
        ELSE LET open == CHOOSE i \in quotes : \A j \in quotes : i <= j
                 close == CHOOSE i \in quotes \ {open} : \A j \in quotes \ {open} : i <= j
             IN  <<SubSeq(s, open, close)>> \o QuotedStrings(SubSeq(s, close + 1, Len(s)))

(***************************************************************************)
(* sql_validator.py: ValidationError                                       *)
(***************************************************************************)
ValidationError(message, line, column) ==
    [message |-> message, line |-> line, column |-> column]

(***************************************************************************)
(* sql_validator.py: SQLValidator._validate_structure, check by check      *)
(***************************************************************************)
unmatched_lines_NoLimit(positions) == sorted(ToSet(positions))

\* The lines an unbalanced-parentheses error lists: sorted(set(...))[:5].
unmatched_lines(positions) ==
    LET distinct == sorted(ToSet(positions))
    IN  SubSeq(distinct, 1, IF Len(distinct) < 5 THEN Len(distinct) ELSE 5)

\* The check of the parentheses.  ScanParens is the scan of the parentheses, whose
\* positions in the text are parens, from the k-th on: it keeps the stack of the
\* lines of the open parentheses and the lines of the closing ones that found the
\* stack empty.
ParenErrors(sql) ==
    LET LineOf(i) == 1 + Cardinality({k \in 1..(i - 1) : Char(sql, k) = "\n"})
        RECURSIVE ScanParens(_, _, _, _)
        ScanParens(parens, k, open_parens, unmatched_close_parens) ==
            IF k > Len(parens)
            THEN [open_parens |-> open_parens,
                  unmatched_close_parens |-> unmatched_close_parens]
            ELSE IF Char(sql, parens[k]) = "("
            THEN ScanParens(parens, k + 1, Append(open_parens, LineOf(parens[k])),
                            unmatched_close_parens)
            ELSE IF open_parens # <<>>
            THEN ScanParens(parens, k + 1, SubSeq(open_parens, 1, Len(open_parens) - 1),
                            unmatched_close_parens)
            ELSE ScanParens(parens, k + 1, open_parens,
                            Append(unmatched_close_parens, LineOf(parens[k])))
        scan == ScanParens(sorted({i \in 1..Len(sql) : Char(sql, i) \in {"(", ")"}}),
                           1, <<>>, <<>>)
        total(paren) == Cardinality({i \in 1..Len(sql) : Char(sql, i) = paren})
        ParenError(positions, line_info) ==
            ValidationError(
                "Unbalanced parentheses: " \o ToString(total("(")) \o " opening, "
                \o ToString(total(")")) \o " closing" \o line_info
                \o JoinNumbers(unmatched_lines(positions), Len(positions)),
                unmatched_lines(positions)[1], None)
    IN  (IF scan.open_parens # <<>>
         THEN <<ParenError(scan.open_parens, " - Missing closing ')' - Check lines: ")>>
         ELSE <<>>)
        \o
        (IF scan.unmatched_close_parens # <<>>
         THEN <<ParenError(scan.unmatched_close_parens, " - Extra closing ')' on lines: ")>>
         ELSE <<>>)

UnescapedQuotes_EscapedToo(line, quote) ==
    Cardinality({i \in 1..Len(line) : Char(line, i) = quote})

\* The number of quote characters of a line not preceded by a backslash.
UnescapedQuotes(line, quote) ==
    Cardinality({i \in 1..Len(line) :
        /\ Char(line, i) = quote
        /\ i = 1 \/ Char(line, i - 1) # "\\"})

\* The check of the quotes: per kind, the numbers of the lines with an odd number
\* of unescaped quotes and the error that lists the first ten.
QuoteErrors(sql) ==
    LET lines == split_lines(sql)
        quote_lines(quote) ==
            sorted({n \in DOMAIN lines : UnescapedQuotes(lines[n], quote) % 2 # 0})
        QuoteError(kind, flagged) ==
            ValidationError(
                "Unbalanced " \o kind \o " quotes on lines: " \o JoinNumbers(flagged, 10)
                \o (IF Len(flagged) > 10
                    THEN " (and " \o ToString(Len(flagged) - 10) \o " more)"
                    ELSE ""),
                flagged[1], None)
    IN  (IF quote_lines("'") # <<>> THEN <<QuoteError("single", quote_lines("'"))>> ELSE <<>>)
        \o
        (IF quote_lines("\"") # <<>> THEN <<QuoteError("double", quote_lines("\""))>> ELSE <<>>)

\* A tree whose sql() raises has this in place of the regenerated text.
Raises == "<raises>"

\* The content-loss check flagging a text that keeps exactly 85% of the tokens.
ContentLossErrors_AtMost85(sql, regenerated) ==
    LET TokenCount(s) ==
            Cardinality({i \in 1..Len(s) :
                /\ Char(s, i) \notin Whitespace
                /\ i = 1 \/ Char(s, i - 1) \in Whitespace})
    IN  IF regenerated = Raises THEN {<<>>}
        ELSE IF Len(QuotedStrings(sql)) > Len(QuotedStrings(regenerated))
        THEN {<<ValidationError(
                  "SQL contains syntax errors - lost string literals during parsing: "
                  \o JoinStrings(missing), None, None)>>
              : missing \in Orderings(ToSet(QuotedStrings(sql))
                                      \ ToSet(QuotedStrings(regenerated)))}
        ELSE IF TokenCount(regenerated) * 100 <= TokenCount(sql) * 85
        THEN {<<ValidationError(
                  "SQL contains syntax errors - significant content lost during parsing",
                  None, None)>>}
        ELSE {<<>>}

\* The content-loss check on the regenerated text: the error lists it can append
\* (the lost literals are joined in the iteration order of a set).
ContentLossErrors(sql, regenerated) ==
    LET TokenCount(s) ==
            Cardinality({i \in 1..Len(s) :
                /\ Char(s, i) \notin Whitespace
                /\ i = 1 \/ Char(s, i - 1) \in Whitespace})
    IN  IF regenerated = Raises THEN {<<>>}
        ELSE IF Len(QuotedStrings(sql)) > Len(QuotedStrings(regenerated))
        THEN {<<ValidationError(
                  "SQL contains syntax errors - lost string literals during parsing: "
                  \o JoinStrings(missing), None, None)>>
              : missing \in Orderings(ToSet(QuotedStrings(sql))
                                      \ ToSet(QuotedStrings(regenerated)))}
        ELSE IF TokenCount(regenerated) * 100 < TokenCount(sql) * 85
        THEN {<<ValidationError(
                  "SQL contains syntax errors - significant content lost during parsing",
                  None, None)>>}
        ELSE {<<>>}

\* p in s
Contains(s, p) ==
    \E i \in 1..(Len(s) - Len(p) + 1) : SubSeq(s, i, i + Len(p) - 1) = p

\* The typo scan on the text as typed.
TypoErrors_CaseSensitive(sql) ==
    LET common_typos ==
            <<<<"SELCT", "SELECT">>, <<"FORM", "FROM">>, <<"WHRE", "WHERE">>,
              <<"GROPU", "GROUP">>, <<"ODER", "ORDER">>, <<"HAVIG", "HAVING">>>>
        sql_upper == sql
        found == SelectSeq(common_typos, LAMBDA typo : Contains(sql_upper, typo[1]))
    IN  [k \in 1..Len(found) |->
            ValidationError("Possible typo: '" \o found[k][1]
                            \o "' (did you mean '" \o found[k][2] \o "'?)", None, None)]

\* The typo scan over the upper-cased text.
TypoErrors(sql) ==
    LET common_typos ==
            <<<<"SELCT", "SELECT">>, <<"FORM", "FROM">>, <<"WHRE", "WHERE">>,
              <<"GROPU", "GROUP">>, <<"ODER", "ORDER">>, <<"HAVIG", "HAVING">>>>
        sql_upper == upper(sql)
        found == SelectSeq(common_typos, LAMBDA typo : Contains(sql_upper, typo[1]))
    IN  [k \in 1..Len(found) |->
            ValidationError("Possible typo: '" \o found[k][1]
                            \o "' (did you mean '" \o found[k][2] \o "'?)", None, None)]

\* The check for a word followed by a literal with no operator between them, nor
\* in context[-3:] of the stripped ten characters before the word.
IncompleteComparisonErrors(sql) ==
    LET RECURSIVE IncompleteMatches(_, _)
        \* The matches of r'\b(\w+)\s+(\'[^\']*\'|\"[^\"]*\")\b' in the text from position
        \* i on, as re.finditer finds them: each as [start, word, literal, end].  MatchAt
        \* is the match that starts at a position, or NoMatch.
        IncompleteMatches(s, i) ==
            LET NoMatch == [start |-> 0]
                \* the end of the run of word characters that starts at k
                WordEnd(k) ==
                    LET stops == {j \in k..Len(s) : ~WordChar(Char(s, j))}
                    IN  IF stops = {} THEN Len(s)
                        ELSE (CHOOSE j \in stops : \A l \in stops : j <= l) - 1
                \* the end of the run of whitespace that starts at k (k - 1 when there is none)
                SpaceEnd(k) ==
                    LET stops == {j \in k..Len(s) : Char(s, j) \notin Whitespace}
                    IN  IF stops = {} THEN Len(s)
                        ELSE (CHOOSE j \in stops : \A l \in stops : j <= l) - 1
                MatchAt(k) ==
                    IF ~(WordChar(Char(s, k)) /\ (k = 1 \/ ~WordChar(Char(s, k - 1)))) THEN NoMatch
                    ELSE LET word_end == WordEnd(k)
                             space_end == SpaceEnd(word_end + 1)
                             open == space_end + 1
                         IN  IF space_end = word_end \/ open > Len(s)
                                \/ Char(s, open) \notin {"'", "\""}
                             THEN NoMatch
                             ELSE LET closes == {j \in (open + 1)..Len(s) : Char(s, j) = Char(s, open)}
                                  IN  IF closes = {} THEN NoMatch
                                      ELSE LET close == CHOOSE j \in closes : \A l \in closes : j <= l
                                           IN  IF close < Len(s) /\ WordChar(Char(s, close + 1))
                                               THEN [start |-> k, word |-> SubSeq(s, k, word_end),
                                                     literal |-> SubSeq(s, open, close), end |-> close]
                                               ELSE NoMatch
                starts == {k \in i..Len(s) : MatchAt(k) # NoMatch}
            IN  IF starts = {} THEN <<>>
                ELSE LET match == MatchAt(CHOOSE k \in starts : \A j \in starts : k <= j)
                     IN  <<match>> \o IncompleteMatches(s, match.end + 1)
        ContextTail(start) ==
            LET context == strip(SubSeq(sql, IF start > 10 THEN start - 10 ELSE 1, start - 1))
            IN  SubSeq(context, IF Len(context) > 3 THEN Len(context) - 2 ELSE 1, Len(context))
        flagged == SelectSeq(IncompleteMatches(sql, 1),
                             LAMBDA match : ~\E op \in {"=", ">", "<", "!", "IN", "LIKE"} :
                                                Contains(ContextTail(match.start), op))
    IN  [k \in 1..Len(flagged) |->
            ValidationError("Incomplete comparison: '" \o flagged[k].word \o " "
                            \o flagged[k].literal
                            \o "' - missing comparison operator (=, !=, >, <, etc.)",
                            None, None)]

MatchesWord_NoBoundary(line, word) ==
    /\ Len(line) >= Len(word)
    /\ SubSeq(line, 1, Len(word)) = word

\* re.match(r'^(word)\b', line)
MatchesWord(line, word) ==
    /\ Len(line) >= Len(word)
    /\ SubSeq(line, 1, Len(word)) = word
    /\ Len(line) = Len(word) \/ ~WordChar(Char(line, Len(word) + 1))

\* The loop over the lines of the upper-cased text.
ClauseErrors(sql) ==
    LET sql_lines == split_lines(upper(sql))
        \* One pass of the loop over the lines: the errors of line i (1-based), those of
        \* ORDER or GROUP alone and those of the empty clauses.
        LineErrors(i) ==
            LET line_stripped == strip(sql_lines[i])
                next_line == IF i + 1 <= Len(sql_lines) THEN strip(sql_lines[i + 1]) ELSE ""
                \* re.match(r'^(SELECT|FROM|...|CASE)\b', next_line)
                next_line_is_keyword ==
                    /\ next_line # ""
                    /\ \E word \in {"SELECT", "FROM", "WHERE", "GROUP", "ORDER", "BY", "HAVING",
                                    "LIMIT", "OFFSET", "UNION", "JOIN", "LEFT", "RIGHT", "INNER",
                                    "OUTER", "CROSS", "AND", "OR", "THEN", "ELSE", "END", "WHEN",
                                    "CASE"} : MatchesWord(next_line, word)
                next_line_has_content == next_line # "" /\ ~next_line_is_keyword
                is_clause_empty == ~next_line_has_content
                IncompleteKeywordErrors(word) ==
                    IF line_stripped = word
                       /\ (i + 1 > Len(sql_lines) \/ ~MatchesWord(strip(sql_lines[i + 1]), "BY"))
                    THEN <<ValidationError("Incomplete keyword '" \o word
                                           \o "' - missing 'BY' (should be '" \o word \o " BY')",
                                           i, None)>>
                    ELSE <<>>
                \* re.match(r'^FIRST\s+SECOND\s*$', line_stripped)
                MatchesTwoWords(first, second) ==
                    /\ Len(line_stripped) > Len(first) + Len(second)
                    /\ SubSeq(line_stripped, 1, Len(first)) = first
                    /\ SubSeq(line_stripped, Len(line_stripped) - Len(second) + 1,
                              Len(line_stripped)) = second
                    /\ \A k \in (Len(first) + 1)..(Len(line_stripped) - Len(second)) :
                           Char(line_stripped, k) \in Whitespace
                \* the clause keywords of the empty-clause check, with the text of their error
                ClauseChecks ==
                    <<<<"SELECT", "", "Empty SELECT clause - no columns specified">>,
                      <<"FROM", "", "Empty FROM clause - no table specified">>,
                      <<"WHERE", "", "Empty WHERE clause - no condition specified">>,
                      <<"ORDER", "BY", "Empty ORDER BY clause - no columns specified">>,
                      <<"GROUP", "BY", "Empty GROUP BY clause - no columns specified">>,
                      <<"LIMIT", "", "Empty LIMIT clause - no value specified">>,
                      <<"OFFSET", "", "Empty OFFSET clause - no value specified">>,
                      <<"HAVING", "", "Empty HAVING clause - no condition specified">>>>
                empty == SelectSeq(ClauseChecks,
                                   LAMBDA check : IF check[2] = "" THEN line_stripped = check[1]
                                                  ELSE MatchesTwoWords(check[1], check[2]))
            IN  IF line_stripped = "" THEN <<>>
                ELSE IncompleteKeywordErrors("ORDER")
                     \o IncompleteKeywordErrors("GROUP")
                     \o (IF is_clause_empty
                         THEN [k \in 1..Len(empty) |-> ValidationError(empty[k][3], i, None)]
                         ELSE <<>>)
        RECURSIVE ErrorsFrom(_)
        ErrorsFrom(i) ==
            IF i > Len(sql_lines) THEN <<>>
            ELSE LineErrors(i) \o ErrorsFrom(i + 1)
    IN  ErrorsFrom(1)

\* _validate_structure(parsed, sql): the error lists it can return; parsed is
\* the text parsed.sql() regenerates, or Raises.
_validate_structure(parsed, sql) ==
    {ParenErrors(sql) \o QuoteErrors(sql) \o loss \o TypoErrors(sql)
     \o IncompleteComparisonErrors(sql) \o ClauseErrors(sql)
        : loss \in ContentLossErrors(sql, parsed)}
(***************************************************************************)
(* The sqlglot collaborator of the validator, on a sample of texts.        *)
(* parse_one either returns a tree or raises; a tree is the text sql()     *)
(* regenerates and the text sql(pretty=True, normalize=True) generates,    *)
(* each Raises when the generator fails.  Where the parser's answer to a   *)
(* malformed text depends on how strictly it runs, both answers are given. *)
(***************************************************************************)
Tree(flat, pretty) == [kind |-> "Tree", flat |-> flat, pretty |-> pretty]

ParseError(message) == [kind |-> "ParseError", message |-> message]

TokenError(message) == [kind |-> "TokenError", message |-> message]

\* A text and the parser's possible answers to it.  The parser ends the message
\* of a ParseError with the text around the offending token (here: the text,
\* without the codes that underline the token).
Sample(sql, outcomes) ==
    [sql |-> sql,
     outcomes |-> {IF outcome.kind = "ParseError"
                   THEN ParseError(outcome.message \o "\n  " \o sql)
                   ELSE outcome : outcome \in outcomes}]

ValidatorSamples ==
    LET WellFormed ==
            {Sample("SELECT * FROM users",
                    {Tree("SELECT * FROM users", "SELECT\n  *\nFROM users")}),
             Sample("select * from users where status='active'",
                    {Tree("SELECT * FROM users WHERE status = 'active'",
                          "SELECT\n  *\nFROM users\nWHERE\n  status = 'active'")}),
             Sample("select id,name from users where status='active'",
                    {Tree("SELECT id, name FROM users WHERE status = 'active'",
                          "SELECT\n  id,\n  name\nFROM users\nWHERE\n  status = 'active'")}),
             Sample("SELECT CASE WHEN status = 'active' THEN 1 ELSE 0 END AS flag FROM users",
                    {Tree("SELECT CASE WHEN status = 'active' THEN 1 ELSE 0 END AS flag FROM users",
                          "SELECT\n  CASE WHEN status = 'active' THEN 1 ELSE 0 END AS flag\nFROM users")}),
             Sample("SELECT LEFT(name, 1) FROM users",
                    {Tree("SELECT LEFT(name, 1) FROM users", "SELECT\n  LEFT(name, 1)\nFROM users")}),
             Sample("SELECT *           FROM                  t",
                    {Tree("SELECT * FROM t", "SELECT\n  *\nFROM t")}),
             Sample("SELECT * FROM users LIMIT 10",
                    {Tree("SELECT * FROM users LIMIT 10", "SELECT\n  *\nFROM users\nLIMIT 10")}),
             Sample("\nSELECT * FROM users\nWHERE id IN (SELECT user_id FROM orders WHERE amount > 100)\n",
                    {Tree("SELECT * FROM users WHERE id IN (SELECT user_id FROM orders WHERE amount > 100)",
                          "SELECT\n  *\nFROM users\nWHERE\n  id IN (\n    SELECT\n      user_id\n    FROM orders\n    WHERE\n      amount > 100\n  )")}),
             Sample("SELECT name FROM users ORDER BY name",
                    {Tree("SELECT name FROM users ORDER BY name",
                          "SELECT\n  name\nFROM users\nORDER BY\n  name")}),
             Sample("SELECT '(' AS paren FROM users",
                    {Tree("SELECT '(' AS paren FROM users", "SELECT\n  '(' AS paren\nFROM users")}),
             Sample("SELECT platform FROM information WHERE note = 'reform'",
                    {Tree("SELECT platform FROM information WHERE note = 'reform'",
                          "SELECT\n  platform\nFROM information\nWHERE\n  note = 'reform'")}),
             Sample("select oder_date, Whre from shipments",
                    {Tree("SELECT oder_date, Whre FROM shipments",
                          "SELECT\n  oder_date,\n  whre\nFROM shipments")}),
             Sample("SELECT id FROM t",
                    {Tree("SELECT id FROM t", "SELECT\n  id\nFROM t"),
                     Tree("SELECT id FROM t", Raises),
                     Tree(Raises, "SELECT\n  id\nFROM t")})}
        Blank == {Sample("", {}), Sample("  \n\t", {})}
        Malformed ==
            {Sample("SELECT * FORM users",
                    {ParseError("Invalid expression / Unexpected token. Line 1, Col: 19."),
                     Tree("SELECT * AS FORM", "SELECT\n  * AS FORM")}),
             Sample("SELECT * FROM users WHERE (status = 'active' AND role = 'admin'",
                    {ParseError("Expecting ). Line 1, Col: 62."),
                     Tree("SELECT * FROM users WHERE (status = 'active' AND role = 'admin')",
                          "SELECT\n  *\nFROM users\nWHERE\n  (\n    status = 'active' AND role = 'admin'\n  )")}),
             Sample("SELECT * FROM users WHERE name = 'John",
                    {TokenError("Error tokenizing 'ers WHERE name = 'John'")}),
             Sample("SELECT * FROM users WHERE role 'admin'",
                    {ParseError("Invalid expression / Unexpected token. Line 1, Col: 38."),
                     Tree("SELECT * FROM users WHERE role", "SELECT\n  *\nFROM users\nWHERE\n  role")}),
             Sample("\nSELECT\n  id,\n  CASE\n    WHEN status = 'active'\n    ELSE 'Unknown'\n  END\nFROM users\n",
                    {ParseError("Required argument 'true' missing for <class 'sqlglot.expressions.If'>. Line 6, Col: 8."),
                     Tree("SELECT id, CASE WHEN status = 'active' THEN  ELSE 'Unknown' END FROM users",
                          "SELECT\n  id,\n  CASE WHEN status = 'active' THEN  ELSE 'Unknown' END\nFROM users")}),
             Sample("\nSELECT\n  id,\n  CASE\n    WHEN status = 'active' THEN 'Active'\nFROM users\n",
                    {ParseError("Expected END after CASE. Line 6, Col: 4."),
                     Tree("SELECT id, CASE WHEN status = 'active' THEN 'Active' END FROM users",
                          "SELECT\n  id,\n  CASE WHEN status = 'active' THEN 'Active' END\nFROM users")}),
             Sample("SELECT\nFROM users",
                    {ParseError("Expected at least one expression. Line 1, Col: 6."),
                     Tree("SELECT FROM users", "SELECT\nFROM users")}),
             Sample("SELECT *\nFROM users\nORDER\nLIMIT 10",
                    {ParseError("Invalid expression / Unexpected token. Line 4, Col: 5."),
                     Tree("SELECT * FROM users AS ORDER LIMIT 10",
                          "SELECT\n  *\nFROM users AS ORDER\nLIMIT 10")}),
             Sample("SELECT d + INTERVAL 5 DAY FROM t WHERE role 'admin'",
                    {ParseError("Invalid expression / Unexpected token. Line 1, Col: 51."),
                     Tree("SELECT d + INTERVAL '5' DAY FROM t WHERE role",
                          "SELECT\n  d + INTERVAL '5' DAY\nFROM t\nWHERE\n  role")}),
             Sample("SELECT * FROM users WHERE role 'admin' AND status = 'active'",
                    {ParseError("Invalid expression / Unexpected token. Line 1, Col: 38."),
                     Tree("SELECT * FROM users WHERE role",
                          "SELECT\n  *\nFROM users\nWHERE\n  role")}),
             Sample("SELECT a, b, c, d, e, f, g, h, i, j FROM t WHERE n = 1 2 3 4",
                    {ParseError("Invalid expression / Unexpected token. Line 1, Col: 56."),
                     Tree("SELECT a, b, c, d, e, f, g, h, i, j FROM t WHERE n = 1",
                          "SELECT\n  a,\n  b,\n  c,\n  d,\n  e,\n  f,\n  g,\n  h,\n  i,\n  j\nFROM t\nWHERE\n  n = 1")}),
             Sample("SELECT a, b, c, d, e, f, g, h, i FROM t WHERE n = 1 2 3 4 5",
                    {ParseError("Invalid expression / Unexpected token. Line 1, Col: 53."),
                     Tree("SELECT a, b, c, d, e, f, g, h, i FROM t WHERE n = 1",
                          "SELECT\n  a,\n  b,\n  c,\n  d,\n  e,\n  f,\n  g,\n  h,\n  i\nFROM t\nWHERE\n  n = 1")})}
    IN  WellFormed \cup Blank \cup Malformed

\* The error validate_sql builds from the message of a ParseError: the line is
\* int(error_msg.split("Line")[1].split(",")[0].strip()) and the column likewise,
\* both None when a split or int fails (NotANumber stands for ValueError, Raises
\* for IndexError).
ParseFailure(error_msg) ==
    LET NotANumber == 0 - 1
        RECURSIVE int(_)
        int(s) ==
            IF s = "" \/ \E i \in 1..Len(s) : ~\E d \in 1..10 : Char("0123456789", d) = Char(s, i)
            THEN NotANumber
            ELSE IF Len(s) = 1
            THEN (CHOOSE d \in 1..10 : Char("0123456789", d) = s) - 1
            ELSE 10 * int(SubSeq(s, 1, Len(s) - 1)) + int(SubSeq(s, Len(s), Len(s)))
        \* position of the first occurrence of p in s, 0 when there is none
        Index(s, p) ==
            LET hits == {k \in 1..(Len(s) - Len(p) + 1) : SubSeq(s, k, k + Len(p) - 1) = p}
            IN  IF hits = {} THEN 0 ELSE CHOOSE k \in hits : \A j \in hits : k <= j
        \* s.split(sep)[1].split(stop)[0].strip()
        Between(s, sep, stop) ==
            LET at == Index(s, sep)
            IN  IF at = 0 THEN Raises
                ELSE LET rest == SubSeq(s, at + Len(sep), Len(s))
                         again == Index(rest, sep)
                         piece == IF again = 0 THEN rest ELSE SubSeq(rest, 1, again - 1)
                         cut == Index(piece, stop)
                     IN  strip(IF cut = 0 THEN piece ELSE SubSeq(piece, 1, cut - 1))
        line_match == Between(error_msg, "Line", ",")
        col_match == Between(error_msg, "Col:", ".")
        found == Contains(error_msg, "Line") /\ Contains(error_msg, "Col")
        line_found == found /\ line_match # Raises /\ int(line_match) # NotANumber
        column_found == line_found /\ col_match # Raises /\ int(col_match) # NotANumber
        line == IF line_found THEN int(line_match) ELSE None
        column == IF column_found THEN int(col_match) ELSE None
    IN  ValidationError(error_msg, line, column)

(***************************************************************************)
(* sql_validator.py: validate_sql, beautify_sql, validate_and_beautify     *)
(***************************************************************************)
\* validate_sql(sql) when parse_one answers with parsed: the pairs (is_valid,
\* errors) it can return.  RegenerationErrors is the regeneration check on the tree.
validate_sql(sql, parsed) ==
    LET Validation(is_valid, errors) == [is_valid |-> is_valid, errors |-> errors]
        RegenerationErrors ==
            IF parsed.flat = Raises
            THEN <<ValidationError("Failed to regenerate SQL: generator error", None, None)>>
            ELSE IF Len(strip(parsed.flat)) * 2 < Len(strip(sql))
            THEN <<ValidationError(
                      "SQL parsing resulted in incomplete query - possible syntax error",
                      None, None)>>
            ELSE <<>>
    IN  IF strip(sql) = ""
        THEN {Validation(FALSE, <<ValidationError("SQL query is empty", None, None)>>)}
        ELSE IF parsed.kind = "Tree"
        THEN {IF errors \o RegenerationErrors # <<>>
              THEN Validation(FALSE, errors \o RegenerationErrors)
              ELSE Validation(TRUE, <<>>)
                 : errors \in _validate_structure(parsed.flat, sql)}
        ELSE IF parsed.kind = "ParseError"
        THEN {Validation(FALSE, <<ParseFailure(parsed.message)>>)}
        ELSE {Validation(FALSE,
                <<ValidationError("Unexpected error: " \o parsed.kind \o ": " \o parsed.message,
                                  None, None)>>)}

beautify_sql_NoLengthCheck(sql, parsed) ==
    LET Beautified(beautified) == [kind |-> "str", text |-> beautified]
        ValueError(message) == [kind |-> "ValueError", message |-> message]
    IN  IF strip(sql) = "" THEN {ValueError("SQL query is empty")}
        ELSE IF parsed.kind = "Tree"
        THEN IF parsed.pretty = Raises
             THEN {ValueError("Failed to beautify SQL: Exception: generator error")}
             ELSE IF Len(QuotedStrings(sql)) > Len(QuotedStrings(parsed.pretty))
             THEN {ValueError("SQL parsing resulted in lost string literals: "
                              \o JoinStrings(missing) \o ". "
                              \o "This indicates a syntax error (possibly missing comparison operator).")
                   : missing \in Orderings(ToSet(QuotedStrings(sql))
                                           \ ToSet(QuotedStrings(parsed.pretty)))}
             ELSE {Beautified(parsed.pretty)}
        ELSE {ValueError("Failed to beautify SQL: " \o parsed.kind \o ": " \o parsed.message)}

\* beautify_sql(sql) when parse_one answers with parsed: the text it can
\* return or the error it can raise.
beautify_sql(sql, parsed) ==
    LET Beautified(beautified) == [kind |-> "str", text |-> beautified]
        ValueError(message) == [kind |-> "ValueError", message |-> message]
    IN  IF strip(sql) = "" THEN {ValueError("SQL query is empty")}
        ELSE IF parsed.kind = "Tree"
        THEN IF parsed.pretty = Raises
             THEN {ValueError("Failed to beautify SQL: Exception: generator error")}
             ELSE IF Len(QuotedStrings(sql)) > Len(QuotedStrings(parsed.pretty))
             THEN {ValueError("SQL parsing resulted in lost string literals: "
                              \o JoinStrings(missing) \o ". "
                              \o "This indicates a syntax error (possibly missing comparison operator).")
                   : missing \in Orderings(ToSet(QuotedStrings(sql))
                                           \ ToSet(QuotedStrings(parsed.pretty)))}
             ELSE IF Len(strip(parsed.pretty)) * 2 < Len(strip(sql))
             THEN {ValueError("SQL parsing resulted in incomplete query - possible syntax error. "
                              \o "The beautified output is significantly shorter than the input.")}
             ELSE {Beautified(parsed.pretty)}
        ELSE {ValueError("Failed to beautify SQL: " \o parsed.kind \o ": " \o parsed.message)}

ValidatedText_NoErrorsWhenValid(is_valid, beautified_sql, validation_errors) ==
    [is_valid |-> is_valid, text |-> beautified_sql,
     errors |-> IF is_valid THEN <<>> ELSE validation_errors]

\* The triple (is_valid, beautified_sql, validation_errors) validate_and_beautify returns.
ValidatedText(is_valid, beautified_sql, validation_errors) ==
    [is_valid |-> is_valid, text |-> beautified_sql, errors |-> validation_errors]

validate_and_beautify_BeautifiesAnyway(sql, parsed) ==
    UNION {{IF beautified.kind = "str"
            THEN ValidatedText(validation.is_valid, beautified.text, validation.errors)
            ELSE ValidatedText(validation.is_valid, sql, validation.errors)
               : beautified \in beautify_sql(sql, parsed)}
              : validation \in validate_sql(sql, parsed)}

\* validate_and_beautify(sql): the triples it can return.
validate_and_beautify(sql, parsed) ==
    UNION {IF validation.is_valid
           THEN {IF beautified.kind = "str"
                 THEN ValidatedText(TRUE, beautified.text, <<>>)
                 ELSE ValidatedText(TRUE, sql,
                        Append(validation.errors,
                               ValidationError("Beautification failed: " \o beautified.message,
                                               None, None)))
                    : beautified \in beautify_sql(sql, parsed)}
           ELSE {ValidatedText(FALSE, sql, validation.errors)}
              : validation \in validate_sql(sql, parsed)}

(***************************************************************************)
(* Calls of the validator.                                                 *)
(***************************************************************************)
\* A method of the validator returns (or raises) r.
Replies(r) ==
    /\ reply = NoReply
    /\ reply' = r
    /\ UNCHANGED <<input_sql, parse_result, origin>>
    /\ UNCHANGED diff_vars
    /\ UNCHANGED compare_vars

ValidateStructure ==
    \E errors \in _validate_structure(parse_result.flat, input_sql) :
        Replies([method |-> "_validate_structure", errors |-> errors])

ValidateSql ==
    \E validation \in validate_sql(input_sql, parse_result) :
        Replies([method |-> "validate_sql", is_valid |-> validation.is_valid,
                 errors |-> validation.errors])

BeautifySql ==
    \E beautified \in beautify_sql(input_sql, parse_result) :
        Replies([method |-> "beautify_sql", result |-> beautified])

ValidateAndBeautify ==
    \E validated \in validate_and_beautify(input_sql, parse_result) :
        Replies([method |-> "validate_and_beautify", is_valid |-> validated.is_valid,
                 text |-> validated.text, errors |-> validated.errors])

\* The caller hands the text beautify_sql returned back to the validator; the
\* parser reads the pretty text of a tree back as that tree.
Resubmit ==
    /\ reply.method = "beautify_sql"
    /\ reply.result.kind = "str"
    /\ origin = None
    /\ input_sql' = reply.result.text
    /\ origin' = input_sql
    /\ reply' = NoReply
    /\ UNCHANGED parse_result
    /\ UNCHANGED diff_vars
    /\ UNCHANGED compare_vars

\* The texts given to the structural checks: texts of parentheses (long texts of
\* few kinds of lines, and short texts that also have lines closing one parenthesis
\* and opening another), texts of quotes (texts whose lines all hold one unbalanced
\* quote, but for at most one line, and short texts with escaped quotes), texts
\* of clause keywords, texts of ORDER or GROUP alone on a line with blank
\* lines, BY lines and other lines around, and texts of a word and a quoted
\* literal with and without an operator before or between them.
StructureTexts ==
    LET RECURSIVE TextsOf(_, _)
        \* the texts of n lines drawn from a set of lines
        TextsOf(lines, n) ==
            IF n = 1 THEN lines
            ELSE {head \o "\n" \o line : head \in TextsOf(lines, n - 1), line \in lines}
        TextsUpTo(lines, n) == UNION {TextsOf(lines, k) : k \in 1..n}
        RECURSIVE JoinLines(_)
        JoinLines(lines) ==
            IF Len(lines) = 1 THEN lines[1]
            ELSE JoinLines(SubSeq(lines, 1, Len(lines) - 1)) \o "\n" \o lines[Len(lines)]
        ParenLines == {"((", ")", "a"}
        ParenTexts ==
            TextsUpTo(ParenLines, MaxParenLines)
            \cup TextsUpTo(ParenLines \cup {")(", "f(a)"}, 3)
        LongQuoteTexts ==
            {JoinLines([i \in 1..n |-> IF i = k THEN "ok" ELSE line])
                : n \in 1..MaxQuoteLines, k \in 0..MaxQuoteLines,
                  line \in {"it's", "say \"hi"}}
        EscapedQuoteLines ==
            {"'", "''", "\\'", "\"", "'\\\"", "a\\\\'b", "\"x\" 'y", "'\\''", "x\\"}
        QuoteTexts == LongQuoteTexts \cup TextsUpTo(EscapedQuoteLines, 2)
        ClauseLines ==
            {"SELECT", "  from ", "Where", "ORDER BY", "group  by", "LIMIT", "OFFSET",
             "HAVING", "", "users", "AND x = 1", "LEFT(name, 1)", "SELECTED", "ORDER"}
        ClauseTexts == TextsUpTo(ClauseLines, MaxClauseLines)
        KeywordLines == {"ORDER", " group ", "", "BY name", "by", "BYE", "users"}
        KeywordTexts == TextsUpTo(KeywordLines, 3)
        ComparisonTexts ==
            {before \o word \o after
                : before \in {"", "WHERE ", "a = 1 AND ", "x IN (1) AND ", "role =", "a >\t"},
                  word \in {"role 'admin'", "name  \"John\"", "role='admin'"},
                  after \in {"", " AND b = 2", "\nLIMIT 1", "x", "_id 'y'z"}}
    IN  ParenTexts \cup QuoteTexts \cup ClauseTexts \cup KeywordTexts \cup ComparisonTexts

\* The structural checks on a text whose tree regenerates the text itself.
InitStructure ==
    /\ InitDiff
    /\ IdleCompare
    /\ input_sql \in StructureTexts
    /\ parse_result = Tree(input_sql, input_sql)
    /\ origin = None
    /\ reply = NoReply

NextStructure == ValidateStructure

SpecStructure == InitStructure /\ [][NextStructure]_vars

\* The validator's methods on the sample texts.
InitValidator ==
    /\ InitDiff
    /\ IdleCompare
    /\ \E sample \in ValidatorSamples :
          /\ input_sql = sample.sql
          /\ parse_result \in IF sample.outcomes = {} THEN {[kind |-> "none"]} ELSE sample.outcomes
    /\ origin = None
    /\ reply = NoReply

NextValidator ==
    \/ ValidateSql
    \/ BeautifySql
    \/ ValidateAndBeautify
    \/ Resubmit

SpecValidator == InitValidator /\ [][NextValidator]_vars

(***************************************************************************)
(* Vocabulary of the properties.  These definitions read the inputs and    *)
(* the returned notices only; none of them uses the model of the differ.   *)
(***************************************************************************)
StartsWith(s, p) == Len(s) >= Len(p) /\ SubSeq(s, 1, Len(p)) = p

EndsWith(s, p) == Len(s) >= Len(p) /\ SubSeq(s, Len(s) - Len(p) + 1, Len(s)) = p

\* Position of the first occurrence of p in s, 0 when there is none.
Find(s, p) ==
    LET hits == {i \in 1..(Len(s) - Len(p) + 1) : SubSeq(s, i, i + Len(p) - 1) = p}
    IN  IF hits = {} THEN 0 ELSE CHOOSE i \in hits : \A j \in hits : i <= j

\* The component models the latest call was given.
ArgA == Components(call[1])
ArgB == Components(call[2])

\* Two notice lists hold the same notices, each as many times.
SameBag(x, y) ==
    /\ Len(x) = Len(y)
    /\ \A n \in ToSet(x) \cup ToSet(y) : Count(x, n) = Count(y, n)

\* A list has the same entry twice.
HasRepeat(list) == \E i, j \in DOMAIN list : i # j /\ list[i] = list[j]

MirrorSummary(s) ==
    IF StartsWith(s, "Added") THEN "Removed" \o SubSeq(s, 6, Len(s))
    ELSE IF StartsWith(s, "Removed") THEN "Added" \o SubSeq(s, 8, Len(s))
    ELSE IF StartsWith(s, "Changed")
    THEN LET f == Find(s, " from ")
             t == Find(s, " to ")
         IN  SubSeq(s, 1, f + 5) \o SubSeq(s, t + 4, Len(s)) \o " to "
             \o SubSeq(s, f + 6, t - 1)
    ELSE LET c == Find(s, ": ")
             r == Find(s, " -> ")
             verb == IF StartsWith(s, "Increased") THEN "Decreased" ELSE "Increased"
         IN  verb \o SubSeq(s, 10, c + 1) \o SubSeq(s, r + 4, Len(s)) \o " -> "
             \o SubSeq(s, c + 2, r - 1)

SwapSeverity(severity) == IF severity = INFO THEN WARN ELSE INFO

\* The mirror image of a notice when INFO and WARN are exchanged in every category.
MirrorExchanged(n) ==
    [n EXCEPT !.summary = MirrorSummary(@), !.severity = SwapSeverity(@)]

\* The mirror image of a notice: INFO and WARN are exchanged, except in ORDER_BY
\* and LIMIT, whose notices are INFO in both directions.
Mirror(n) ==
    [n EXCEPT !.summary = MirrorSummary(@),
              !.severity = IF n.category \in {ORDER_BY, LIMIT} THEN INFO
                           ELSE SwapSeverity(@)]

\* The latest call had the arguments of the call before it, swapped.
SwappedCall ==
    /\ prev_call # NoCall
    /\ call = <<prev_call[2], prev_call[1]>>
    /\ call[1] # call[2]

\* C2 as claimed: compare(B, A) returns the notices of compare(A, B) with Added and
\* Removed exchanged and INFO and WARN exchanged in every category.
C2_SymmetryAsClaimed ==
    SwappedCall =>
        SameBag(notices, [i \in DOMAIN prev_notices |-> MirrorExchanged(prev_notices[i])])

\* C2: compare(B, A) returns the notices of compare(A, B) with Added and Removed
\* (Increased and Decreased, the two ends of Changed) exchanged, and with INFO and
\* WARN exchanged in SELECT, FROM, JOIN, WHERE, GROUP_BY, HAVING and SUBQUERY; the
\* ORDER_BY and LIMIT notices are INFO in both directions.
C2_Symmetry ==
    SwappedCall =>
        SameBag(notices, [i \in DOMAIN prev_notices |-> Mirror(prev_notices[i])])

\* Both directions were run on a pair whose subquery count at one location went
\* down in the second direction, with a body removed.
C2_Witness ==
    /\ SwappedCall
    /\ \E i, j \in DOMAIN notices :
          /\ StartsWith(notices[i].summary, "Removed subquery")
          /\ notices[i].severity = WARN
          /\ StartsWith(notices[j].summary, "Decreased")
          /\ notices[j].severity = WARN
    /\ \E i \in DOMAIN prev_notices : StartsWith(prev_notices[i].summary, "Increased")

(***************************************************************************)
(* C3  compare_sql never raises; parse failures become one notice          *)
(***************************************************************************)
NoFailure == [raised |-> FALSE]

\* The first step of the semantic diff that fails on the two texts, in the order
\* the steps are taken: normalize A, normalize B (when normalizing), then extract
\* A, extract B from the texts compared.
FirstFailure ==
    LET na == normalize_sql(sql_a)
        nb == normalize_sql(sql_b)
    IN  IF config.normalize
        THEN IF na.raised THEN na
             ELSE IF nb.raised THEN nb
             ELSE IF extract_components(na.value).raised THEN extract_components(na.value)
             ELSE IF extract_components(nb.value).raised THEN extract_components(nb.value)
             ELSE NoFailure
        ELSE IF extract_components(sql_a).raised THEN extract_components(sql_a)
             ELSE IF extract_components(sql_b).raised THEN extract_components(sql_b)
             ELSE NoFailure

\* The text diffs of the two originals and, when both normalize, of the two
\* normalized forms.
TextDiffs ==
    {generate_text_diff(sql_a, sql_b, config.ignore_whitespace)}
    \cup (IF normalize_sql(sql_a).raised \/ normalize_sql(sql_b).raised THEN {}
          ELSE {generate_text_diff(normalize_sql(sql_a).value, normalize_sql(sql_b).value,
                                   config.ignore_whitespace)})

\* C3: compare_sql always returns a result; when semantic diff is enabled and
\* normalizing or extracting either input fails, the notices are exactly one
\* GENERAL/WARN notice whose details are the parse_error string, which carries the
\* failure's type and message, and the result has a text diff of the two texts.
C3_ParseErrorFallback ==
    /\ ~result.returned =>
          compare_sql(sql_a, sql_b, config.normalize, config.ignore_whitespace,
                      config.semantic_diff) # {}
    /\ (result.returned /\ config.semantic_diff /\ FirstFailure.raised) =>
          /\ result.parse_error = "Semantic diff unavailable: " \o FirstFailure.type
                                  \o ": " \o FirstFailure.message
          /\ Len(result.notices) = 1
          /\ result.notices[1].category = GENERAL
          /\ result.notices[1].severity = WARN
          /\ result.notices[1].details = result.parse_error
          /\ result.text_diff \in TextDiffs

\* compare_sql returned for a parseable first text and an unparseable second one,
\* with a non-empty text diff.
C3_Witness ==
    /\ result.returned
    /\ config.semantic_diff
    /\ ~ParseOne(sql_a).raised
    /\ ParseOne(sql_b).raised
    /\ result.parse_error # None
    /\ result.text_diff # <<>>

(***************************************************************************)
(* C4  The text diff and the normalize flag                                *)
(***************************************************************************)
\* C4: the text diff is computed over the normalized forms of both inputs when the
\* normalize flag is true (and both inputs can be normalized), over the original
\* inputs when it is false, whatever the semantic_diff flag.
C4_TextDiffFollowsNormalizeFlag ==
    (result.returned /\ ~(config.normalize /\ (normalize_sql(sql_a).raised
                                               \/ normalize_sql(sql_b).raised))) =>
        result.text_diff =
            IF config.normalize
            THEN generate_text_diff(normalize_sql(sql_a).value, normalize_sql(sql_b).value,
                                    config.ignore_whitespace)
            ELSE generate_text_diff(sql_a, sql_b, config.ignore_whitespace)

(***************************************************************************)
(* C5  Severity rule of the list categories                                *)
(***************************************************************************)
ListCategories == {SELECT, FROM, JOIN, WHERE, GROUP_BY, HAVING, ORDER_BY}

\* The values of a component model that a category compares.
Listed(c, category) ==
    CASE category = SELECT -> ToSet(c.select_expressions)
      [] category = FROM -> ToSet(c.from_tables)
      [] category = JOIN ->
            {c.joins[i].type \o " JOIN " \o c.joins[i].table \o " ON " \o c.joins[i].on
                : i \in DOMAIN c.joins}
      [] category = WHERE -> ToSet(c.where_predicates)
      [] category = GROUP_BY -> ToSet(c.group_by)
      [] category = HAVING -> ToSet(c.having_predicates)
      [] category = ORDER_BY -> ToSet(c.order_by)

\* A value as a summary shows it: cut to 60 characters in SELECT, WHERE and HAVING.
Shown(category, v) ==
    IF category \in {SELECT, WHERE, HAVING} /\ Len(v) > 60
    THEN SubSeq(v, 1, 57) \o "..."
    ELSE v

\* The notices of a category that report a value with a verb and a severity.
Reports(category, verb, v, severity) ==
    {i \in DOMAIN notices :
        /\ notices[i].category = category
        /\ StartsWith(notices[i].summary, verb \o " ")
        /\ EndsWith(notices[i].summary, ": " \o Shown(category, v))
        /\ notices[i].severity = severity}

\* C5: in SELECT, FROM, JOIN, WHERE, GROUP_BY and HAVING the differ emits exactly
\* one Added/INFO notice per value only in B, exactly one Removed/WARN notice per
\* value only in A, and no other notice of the category; in ORDER_BY the same with
\* both kinds of notice INFO.
C5_SeverityRule ==
    call # NoCall =>
        \A category \in ListCategories :
            LET only_a == Listed(ArgA, category) \ Listed(ArgB, category)
                only_b == Listed(ArgB, category) \ Listed(ArgA, category)
                removed_severity == IF category = ORDER_BY THEN INFO ELSE WARN
            IN  /\ \A v \in only_b :
                      Cardinality(Reports(category, "Added", v, INFO)) = 1
                /\ \A v \in only_a :
                      Cardinality(Reports(category, "Removed", v, removed_severity)) = 1
                /\ Cardinality({i \in DOMAIN notices : notices[i].category = category})
                      = Cardinality(only_a) + Cardinality(only_b)

\* The differ ran on two WHERE clauses, each with a predicate the other lacks.
C5_Witness ==
    /\ call = <<"a", "b">>
    /\ \E v \in ToSet(components_a.where_predicates) :
          Reports(WHERE, "Removed", v, WARN) # {}
    /\ \E v \in ToSet(components_b.where_predicates) :
          Reports(WHERE, "Added", v, INFO) # {}

(***************************************************************************)
(* C6  JOIN signatures                                                     *)
(***************************************************************************)
JoinSignature(join) == join.type \o " JOIN " \o join.table \o " ON " \o join.on

\* The two join lists differ only in the kind of the join at index i.
KindOnlyChange(i) ==
    /\ Len(ArgA.joins) = Len(ArgB.joins)
    /\ i \in DOMAIN ArgA.joins
    /\ ArgA.joins[i].type # ArgB.joins[i].type
    /\ ArgA.joins[i].table = ArgB.joins[i].table
    /\ ArgA.joins[i].on = ArgB.joins[i].on
    /\ \A j \in DOMAIN ArgA.joins : j # i => ArgA.joins[j] = ArgB.joins[j]

\* One removal of the old signature, one addition of the new one, no "Changed".
RemovalPlusAddition(i) ==
    /\ Cardinality({k \in DOMAIN notices :
            notices[k] = DiffNotice(JOIN, "Removed JOIN: " \o JoinSignature(ArgA.joins[i]),
                                    None, WARN)}) = 1
    /\ Cardinality({k \in DOMAIN notices :
            notices[k] = DiffNotice(JOIN, "Added JOIN: " \o JoinSignature(ArgB.joins[i]),
                                    None, INFO)}) = 1
    /\ \A k \in DOMAIN notices :
            notices[k].category = JOIN => ~StartsWith(notices[k].summary, "Changed")

\* Every join entry has the kind of its side keyword, INNER when it has none.
KindDefaultsToInner ==
    \A c \in {components_a, components_b} : \A k \in DOMAIN c.joins :
        /\ c.joins[k].type # ""
        /\ \E join \in JoinNodes :
              c.joins[k] = [type |-> IF join.side = "" THEN "INNER" ELSE join.side,
                            table |-> join.this,
                            on |-> IF join.on = NoOn THEN "" ELSE join.on]

\* C6 as claimed: whenever A and B differ only in the kind of one join, the differ
\* emits exactly one Removed/WARN notice for the old signature and exactly one
\* Added/INFO notice for the new one.
C6_KindChangeAsClaimed ==
    call = <<"a", "b">> =>
        \A i \in DOMAIN ArgA.joins : KindOnlyChange(i) => RemovalPlusAddition(i)

\* C6: joins are compared as the set of their signatures "<KIND> JOIN <table> ON
\* <predicate>": when A and B differ only in the kind of one join, and the old
\* signature is not among B's joins nor the new one among A's, the differ emits
\* exactly one Removed/WARN JOIN notice for the old signature, exactly one
\* Added/INFO JOIN notice for the new one and no "Changed" notice; the kind is
\* INNER whenever the join has no side keyword.
C6_KindChange ==
    /\ KindDefaultsToInner
    /\ call = <<"a", "b">> =>
          \A i \in DOMAIN ArgA.joins :
              (/\ KindOnlyChange(i)
               /\ \A k \in DOMAIN ArgB.joins :
                      JoinSignature(ArgB.joins[k]) # JoinSignature(ArgA.joins[i])
               /\ \A k \in DOMAIN ArgA.joins :
                      JoinSignature(ArgA.joins[k]) # JoinSignature(ArgB.joins[i]))
              => RemovalPlusAddition(i)

\* The differ ran on a join without side keyword against the same join as LEFT,
\* each query having a second, common join.
C6_Witness ==
    /\ call = <<"a", "b">>
    /\ Len(components_a.joins) = 2
    /\ KindOnlyChange(1)
    /\ components_a.joins[1].type = "INNER"
    /\ components_b.joins[1].type = "LEFT"
    /\ Len(notices) = 2

(***************************************************************************)
(* C7  LIMIT and OFFSET                                                    *)
(***************************************************************************)
\* The notices of the LIMIT category that are about the clause word.
About(word) ==
    {i \in DOMAIN notices :
        /\ notices[i].category = LIMIT
        /\ \E verb \in {"Removed", "Added", "Changed"} :
              StartsWith(notices[i].summary, verb \o " " \o word \o " ")}

\* The notices the 3-way rule asks for, for the clause word with values x and y.
ThreeWay(word, x, y) ==
    IF x = y THEN {}
    ELSE IF y = None THEN {DiffNotice(LIMIT, "Removed " \o word \o " " \o x, None, INFO)}
    ELSE IF x = None THEN {DiffNotice(LIMIT, "Added " \o word \o " " \o y, None, INFO)}
    ELSE {DiffNotice(LIMIT, "Changed " \o word \o " from " \o x \o " to " \o y, None, INFO)}

\* C7: LIMIT and OFFSET each follow the 3-way rule: no notice when the two values
\* are equal, one "Removed" notice when present only in A, one "Added" notice when
\* present only in B, one "Changed X from A to B" notice of severity INFO when
\* present in both and different; at most one LIMIT and one OFFSET notice per
\* comparison.
C7_LimitOffsetRule ==
    call # NoCall =>
        /\ {notices[i] : i \in About("LIMIT")} = ThreeWay("LIMIT", ArgA.limit, ArgB.limit)
        /\ {notices[i] : i \in About("OFFSET")} = ThreeWay("OFFSET", ArgA.offset, ArgB.offset)
        /\ Cardinality(About("LIMIT")) <= 1
        /\ Cardinality(About("OFFSET")) <= 1
        /\ {i \in DOMAIN notices : notices[i].category = LIMIT}
              = About("LIMIT") \cup About("OFFSET")

\* The differ ran on a changed LIMIT together with a dropped OFFSET.
C7_Witness ==
    /\ call = <<"a", "b">>
    /\ components_a.limit # None /\ components_b.limit # None
    /\ components_a.limit # components_b.limit
    /\ components_a.offset # None /\ components_b.offset = None
    /\ Cardinality(About("LIMIT")) = 1
    /\ Cardinality(About("OFFSET")) = 1

(***************************************************************************)
(* C8  Subquery count changes                                              *)
(***************************************************************************)
LocationTags ==
    {"SELECT", "FROM", "JOIN", "WHERE", "WHERE-IN", "WHERE-EXISTS", "HAVING", "UNKNOWN"}

\* The number of subqueries of a component model at a tag, repeats included.
CountAt(c, tag) ==
    Cardinality({i \in DOMAIN c.subqueries : c.subqueries[i].location = tag})

\* The count-change notices at a tag, of one direction.
CountChanges(tag, direction) ==
    {i \in DOMAIN notices :
        /\ notices[i].category = SUBQUERY
        /\ StartsWith(notices[i].summary, direction \o " subquery count in " \o tag \o ": ")}

\* C8: for every location tag there is one count-change notice if and only if both
\* A and B have a subquery at the tag and their totals at the tag differ, repeats
\* counted; it is "Increased"/INFO when B has more, "Decreased"/WARN when B has
\* fewer; there is none when either side has no subquery at the tag.
C8_CountChange ==
    call # NoCall =>
        \A tag \in LocationTags :
            LET count_a == CountAt(ArgA, tag)
                count_b == CountAt(ArgB, tag)
                up == CountChanges(tag, "Increased")
                down == CountChanges(tag, "Decreased")
            IN  /\ Cardinality(up) =
                      (IF count_a > 0 /\ count_b > count_a THEN 1 ELSE 0)
                /\ Cardinality(down) =
                      (IF count_b > 0 /\ count_a > count_b THEN 1 ELSE 0)
                /\ \A i \in up : notices[i].severity = INFO
                /\ \A i \in down : notices[i].severity = WARN

\* The differ ran on one body once in A and twice in B at the same tag: the only
\* notice is the increase.
C8_Witness ==
    /\ call = <<"a", "b">>
    /\ \E tag \in LocationTags :
          /\ CountAt(components_a, tag) = 1
          /\ CountAt(components_b, tag) = 2
          /\ HasRepeat(components_b.subqueries)
          /\ Cardinality(CountChanges(tag, "Increased")) = 1
    /\ Len(notices) = 1

(***************************************************************************)
(* C9  Subquery bodies per location tag                                    *)
(***************************************************************************)
\* The bodies of a component model at a tag.
BodiesAt(c, tag) ==
    {c.subqueries[i].sql : i \in {k \in DOMAIN c.subqueries : c.subqueries[k].location = tag}}

\* How often a body occurs at a tag.
Occurrences(c, tag, body) ==
    Cardinality({i \in DOMAIN c.subqueries :
        c.subqueries[i].location = tag /\ c.subqueries[i].sql = body})

\* A body as the details show it: cut to 150 characters.
Detailed(body) == IF Len(body) > 150 THEN SubSeq(body, 1, 147) \o "..." ELSE body

\* The notice expected for a body that is at the tag on one side c only.
BodyNotice(verb, severity, c, tag, body) ==
    DiffNotice(SUBQUERY,
        verb \o " subquery in " \o tag
        \o (IF Occurrences(c, tag, body) > 1
            THEN " (" \o ToString(Occurrences(c, tag, body)) \o " occurrences)"
            ELSE ""),
        Detailed(body), severity)

\* The notices that report a removed or an added subquery body.
BodyReports ==
    {i \in DOMAIN notices :
        /\ notices[i].category = SUBQUERY
        /\ StartsWith(notices[i].summary, "Removed subquery in ")
           \/ StartsWith(notices[i].summary, "Added subquery in ")}

\* C9: subqueries are grouped by location tag and their bodies differenced per
\* tag: each body only in A at a tag gives exactly one "Removed subquery in <tag>"
\* notice (WARN), each body only in B exactly one "Added subquery in <tag>" notice
\* (INFO), with the body in the details and "(n occurrences)" in the summary
\* exactly when the body occurs n > 1 times at the tag on its side; a body that
\* moves to another tag is a removal at the old tag and an addition at the new.
C9_BodiesPerTag ==
    call # NoCall =>
        /\ \A tag \in LocationTags :
              /\ \A body \in BodiesAt(ArgA, tag) \ BodiesAt(ArgB, tag) :
                    Cardinality({i \in DOMAIN notices :
                        notices[i] = BodyNotice("Removed", WARN, ArgA, tag, body)}) = 1
              /\ \A body \in BodiesAt(ArgB, tag) \ BodiesAt(ArgA, tag) :
                    Cardinality({i \in DOMAIN notices :
                        notices[i] = BodyNotice("Added", INFO, ArgB, tag, body)}) = 1
        /\ \A i \in BodyReports : \E tag \in LocationTags :
              \/ \E body \in BodiesAt(ArgA, tag) \ BodiesAt(ArgB, tag) :
                    notices[i] = BodyNotice("Removed", WARN, ArgA, tag, body)
              \/ \E body \in BodiesAt(ArgB, tag) \ BodiesAt(ArgA, tag) :
                    notices[i] = BodyNotice("Added", INFO, ArgB, tag, body)

\* The differ ran on a body twice at one tag of A that B has once at another tag.
C9_Witness ==
    /\ call = <<"a", "b">>
    /\ \E old \in LocationTags, new \in LocationTags : \E body \in BodiesAt(components_a, old) :
          /\ old # new
          /\ Occurrences(components_a, old, body) = 2
          /\ BodiesAt(components_b, old) = {}
          /\ body \in BodiesAt(components_b, new)
          /\ \E i \in DOMAIN notices :
                notices[i].summary = "Removed subquery in " \o old \o " (2 occurrences)"
          /\ \E i \in DOMAIN notices :
                notices[i].summary = "Added subquery in " \o new
    /\ Len(notices) = 2

(***************************************************************************)
(* C10  Determinism of the differ                                          *)
(***************************************************************************)
\* C10: two runs of generate_semantic_notices on the same pair of component models
\* produce the same notice sequence in the same order.
C10_Deterministic ==
    (prev_call # NoCall /\ call = prev_call) => notices = prev_notices

(***************************************************************************)
(* C11  Order of the notices                                               *)
(***************************************************************************)
CategoryOrder == <<SELECT, FROM, JOIN, WHERE, GROUP_BY, HAVING, ORDER_BY, LIMIT, SUBQUERY>>

\* The place of a notice within its category: removals before additions, LIMIT
\* before OFFSET, subquery additions and removals before count changes.
PlaceInCategory(n) ==
    IF n.category = LIMIT
    THEN IF \E verb \in {"Removed", "Added", "Changed"} :
                StartsWith(n.summary, verb \o " OFFSET ")
         THEN 1 ELSE 0
    ELSE IF n.category = SUBQUERY
    THEN IF StartsWith(n.summary, "Increased") \/ StartsWith(n.summary, "Decreased")
         THEN 1 ELSE 0
    ELSE IF StartsWith(n.summary, "Added") THEN 1 ELSE 0

Place(n) ==
    2 * (CHOOSE k \in DOMAIN CategoryOrder : CategoryOrder[k] = n.category)
    + PlaceInCategory(n)

\* C11: the notices follow the category order SELECT, FROM, JOIN, WHERE, GROUP_BY,
\* HAVING, ORDER_BY, LIMIT (LIMIT before OFFSET), SUBQUERY; in each of the first
\* seven categories every Removed notice precedes every Added notice, and in
\* SUBQUERY every add/remove notice precedes every count-change notice.
C11_CategoryOrder ==
    call # NoCall =>
        /\ \A i \in DOMAIN notices : notices[i].category \in ToSet(CategoryOrder)
        /\ \A i, j \in DOMAIN notices : i < j => Place(notices[i]) <= Place(notices[j])

\* The differ ran on two queries that differ in every clause: every category and
\* every place within a category has a notice.
C11_Witness ==
    /\ call = <<"a", "b">>
    /\ \A k \in 2..19 : \E i \in DOMAIN notices : Place(notices[i]) = k

(***************************************************************************)
(* The validator's replies, read as a caller reads them.                   *)
(***************************************************************************)
\* Some error of the list has the word in its message.
Mentions(errors, word) == \E i \in DOMAIN errors : Find(errors[i].message, word) > 0

\* The lines of a text, as pairs of first and last position.
LineSpans(text) ==
    LET breaks == {i \in 1..Len(text) : SubSeq(text, i, i) = "\n"}
        starts == {1} \cup {i + 1 : i \in breaks}
    IN  {<<first, CHOOSE last \in first - 1..Len(text) :
                     /\ last + 1 \in breaks \cup {Len(text) + 1}
                     /\ \A i \in first..last : i \notin breaks>> : first \in starts}

\* How many times the one-character string ch occurs in text[first..last].
Occurs(text, ch, first, last) ==
    Cardinality({i \in first..last : SubSeq(text, i, i) = ch})

\* C12: validate_sql runs every check on every input: a text with unequal numbers
\* of '(' and ')' gets a parentheses error, a text with a line holding an odd
\* number of single quotes (and no backslash) gets a single-quotes error, and a
\* text with the misspelt keyword FORM gets the typo error for it, whatever the
\* parser made of the text.
C12_NoEarlyExit ==
    (reply.method = "validate_sql" /\ origin = None) =>
        /\ Occurs(input_sql, "(", 1, Len(input_sql)) # Occurs(input_sql, ")", 1, Len(input_sql))
              => Mentions(reply.errors, "parentheses")
        /\ (/\ Occurs(input_sql, "\\", 1, Len(input_sql)) = 0
            /\ \E span \in LineSpans(input_sql) :
                  Occurs(input_sql, "'", span[1], span[2]) % 2 = 1)
              => Mentions(reply.errors, "single quotes")
        /\ Find(input_sql, " FORM ") > 0 => Mentions(reply.errors, "Possible typo: 'FORM'")

\* Number of '(' minus number of ')' among the first i characters of the text.
Balance(text, i) == Occurs(text, "(", 1, i) - Occurs(text, ")", 1, i)

\* The '(' that no later ')' matches: the balance never returns below its level.
UnmatchedOpens(text) ==
    {p \in 1..Len(text) :
        /\ SubSeq(text, p, p) = "("
        /\ \A q \in p + 1..Len(text) : Balance(text, q) >= Balance(text, p)}

\* The ')' that occur when no '(' is open: the balance reaches a new minimum.
UnmatchedCloses(text) ==
    {q \in 1..Len(text) :
        /\ SubSeq(text, q, q) = ")"
        /\ \A j \in 0..(q - 1) : Balance(text, q) < Balance(text, j)}

\* The 1-based numbers of the lines that hold the positions.
LinesOf(text, positions) == {1 + Occurs(text, "\n", 1, p - 1) : p \in positions}

Least(S) == CHOOSE x \in S : \A y \in S : x <= y

\* The n least numbers of S in ascending order, separated by ", ".
RECURSIVE Ascending(_, _)
Ascending(S, n) ==
    IF S = {} \/ n = 0 THEN ""
    ELSE ToString(Least(S))
         \o (IF S = {Least(S)} \/ n = 1 THEN "" ELSE ", " \o Ascending(S \ {Least(S)}, n - 1))

\* The error the paren check owes for a non-empty set of offending lines.
ParenReport(text, lines, hint) ==
    [message |-> "Unbalanced parentheses: " \o ToString(Occurs(text, "(", 1, Len(text)))
                 \o " opening, " \o ToString(Occurs(text, ")", 1, Len(text)))
                 \o " closing" \o hint \o Ascending(lines, 5),
     line |-> Least(lines), column |-> None]

\* The errors of a reply that the paren check made.
ParenReports == SelectSeq(reply.errors, LAMBDA e : StartsWith(e.message, "Unbalanced parentheses"))

\* C13: the paren check reports an unmatched-open error exactly when some '(' has no
\* later matching ')' and, after it, an unmatched-close error exactly when some ')'
\* occurs with no '(' open; each states the total counts of '(' and ')', lists the
\* first 5 distinct lines of the unmatched parentheses in ascending order and has
\* the smallest of them as its line.
C13_ParenBalance ==
    reply.method = "_validate_structure" =>
        ParenReports =
            (IF UnmatchedOpens(input_sql) = {} THEN <<>>
             ELSE <<ParenReport(input_sql, LinesOf(input_sql, UnmatchedOpens(input_sql)),
                                " - Missing closing ')' - Check lines: ")>>)
            \o
            (IF UnmatchedCloses(input_sql) = {} THEN <<>>
             ELSE <<ParenReport(input_sql, LinesOf(input_sql, UnmatchedCloses(input_sql)),
                                " - Extra closing ')' on lines: ")>>)

\* The check ran on a text with a ')' that nothing opens and with unmatched '(' on
\* more than 5 lines: both errors are reported, one of them with a cut list.
C13_Witness ==
    /\ reply.method = "_validate_structure"
    /\ Len(ParenReports) = 2
    /\ Cardinality(LinesOf(input_sql, UnmatchedOpens(input_sql))) > 5

\* The numbers of the lines on which the quote character occurs an odd number of
\* times, not counting an occurrence that directly follows a backslash on the line.
OddQuoteLines(text, quote) ==
    {1 + Occurs(text, "\n", 1, span[1] - 1) : span \in
        {sp \in LineSpans(text) :
            Cardinality({i \in sp[1]..sp[2] :
                /\ SubSeq(text, i, i) = quote
                /\ i = sp[1] \/ SubSeq(text, i - 1, i - 1) # "\\"}) % 2 = 1}}

\* The error the quote check owes for a non-empty set of flagged lines.
QuoteReport(kind, lines) ==
    [message |-> "Unbalanced " \o kind \o " quotes on lines: " \o Ascending(lines, 10)
                 \o (IF Cardinality(lines) > 10
                     THEN " (and " \o ToString(Cardinality(lines) - 10) \o " more)"
                     ELSE ""),
     line |-> Least(lines), column |-> None]

\* The errors of a reply that the quote check made.
QuoteReports ==
    SelectSeq(reply.errors, LAMBDA e : \/ StartsWith(e.message, "Unbalanced single quotes")
                                       \/ StartsWith(e.message, "Unbalanced double quotes"))

\* C14: the quote check flags a line for a quote kind exactly when the line has an
\* odd number of that quote character not directly preceded by a backslash; for
\* each kind with a flagged line there is one error (single quotes first), which
\* lists the first 10 flagged lines (and says how many more there are) and has
\* the first flagged line as its line.
C14_QuoteBalance ==
    reply.method = "_validate_structure" =>
        QuoteReports =
            (IF OddQuoteLines(input_sql, "'") = {} THEN <<>>
             ELSE <<QuoteReport("single", OddQuoteLines(input_sql, "'"))>>)
            \o
            (IF OddQuoteLines(input_sql, "\"") = {} THEN <<>>
             ELSE <<QuoteReport("double", OddQuoteLines(input_sql, "\""))>>)

\* The check ran on a text with more than 10 flagged lines: the error lists ten.
C14_Witness ==
    /\ reply.method = "_validate_structure"
    /\ Cardinality(OddQuoteLines(input_sql, "'")) > 10
    /\ Len(QuoteReports) = 1

Smalls == "abcdefghijklmnopqrstuvwxyz"

Capitals == "ABCDEFGHIJKLMNOPQRSTUVWXYZ"

\* A character, in upper case when it is a letter.
Capital(c) ==
    IF \E k \in 1..26 : SubSeq(Smalls, k, k) = c
    THEN LET k == CHOOSE k \in 1..26 : SubSeq(Smalls, k, k) = c IN SubSeq(Capitals, k, k)
    ELSE c

\* Two texts that differ in the case of their letters at most.
SameLetters(s, t) ==
    /\ Len(s) = Len(t)
    /\ \A i \in 1..Len(s) : Capital(SubSeq(s, i, i)) = Capital(SubSeq(t, i, i))

Blank(c) == c \in {" ", "\t", "\r"}

\* A line without the blanks at its ends.
Trimmed(line) ==
    LET inked == {i \in 1..Len(line) : ~Blank(SubSeq(line, i, i))}
    IN  IF inked = {} THEN ""
        ELSE SubSeq(line, Least(inked), CHOOSE i \in inked : \A j \in inked : j <= i)

LineCount(text) == Cardinality(LineSpans(text))

\* Line n (1-based) of a text.
NthLine(text, n) ==
    LET span == CHOOSE sp \in LineSpans(text) : 1 + Occurs(text, "\n", 1, sp[1] - 1) = n
    IN  SubSeq(text, span[1], span[2])

\* The clause keywords of the empty-clause check, as lists of words.
ClauseKeywords ==
    {<<"SELECT">>, <<"FROM">>, <<"WHERE">>, <<"ORDER", "BY">>, <<"GROUP", "BY">>,
     <<"LIMIT">>, <<"OFFSET">>, <<"HAVING">>}

KeywordName(keyword) ==
    IF Len(keyword) = 1 THEN keyword[1] ELSE keyword[1] \o " " \o keyword[2]

\* The line, trimmed and whatever the case of its letters, is exactly the keyword.
IsKeywordLine(line, keyword) ==
    LET t == Trimmed(line)
    IN  IF Len(keyword) = 1 THEN SameLetters(t, keyword[1])
        ELSE /\ Len(t) > Len(keyword[1]) + Len(keyword[2])
             /\ SameLetters(SubSeq(t, 1, Len(keyword[1])), keyword[1])
             /\ SameLetters(SubSeq(t, Len(t) - Len(keyword[2]) + 1, Len(t)), keyword[2])
             /\ \A i \in (Len(keyword[1]) + 1)..(Len(t) - Len(keyword[2])) :
                    Blank(SubSeq(t, i, i))

\* The words that make a following line a clause of its own.
RecognizedKeywords ==
    {"SELECT", "FROM", "WHERE", "GROUP", "ORDER", "BY", "HAVING", "LIMIT", "OFFSET",
     "UNION", "JOIN", "LEFT", "RIGHT", "INNER", "OUTER", "CROSS", "AND", "OR", "THEN",
     "ELSE", "END", "WHEN", "CASE"}

IsWordCharacter(c) ==
    Occurs(Smalls \o Capitals \o "0123456789_", c, 1, 63) > 0

\* The first word of the trimmed line is a recognized keyword.
BeginsWithKeyword(line) ==
    LET t == Trimmed(line)
        n == Cardinality({i \in 1..Len(t) :
                 \A j \in 1..i : IsWordCharacter(SubSeq(t, j, j))})
    IN  \E keyword \in RecognizedKeywords : SameLetters(SubSeq(t, 1, n), keyword)

\* Line n of the text is the keyword alone and no content follows on the next line.
EmptyClauseAt(text, n, keyword) ==
    /\ IsKeywordLine(NthLine(text, n), keyword)
    /\ \/ n = LineCount(text)
       \/ Trimmed(NthLine(text, n + 1)) = ""
       \/ BeginsWithKeyword(NthLine(text, n + 1))

\* The empty-clause errors of a reply.
EmptyClauseReports ==
    SelectSeq(reply.errors, LAMBDA e : StartsWith(e.message, "Empty "))

WordStarts(text, word) ==
    {i \in 1..(Len(text) - Len(word) + 1) :
        /\ SameLetters(SubSeq(text, i, i + Len(word) - 1), word)
        /\ i = 1 \/ ~IsWordCharacter(SubSeq(text, i - 1, i - 1))
        /\ \/ i + Len(word) - 1 = Len(text)
           \/ ~IsWordCharacter(SubSeq(text, i + Len(word), i + Len(word)))}

\* More CASE words than END words: some CASE has no END.
CaseWithoutEnd(text) ==
    Cardinality(WordStarts(text, "CASE")) > Cardinality(WordStarts(text, "END"))

\* Some WHEN is not followed by THEN before the next WHEN, ELSE or END.
WhenWithoutThen(text) ==
    \E p \in WordStarts(text, "WHEN") :
        LET followers == {q \in UNION {WordStarts(text, word) :
                                          word \in {"WHEN", "THEN", "ELSE", "END"}} : q > p}
        IN  followers = {} \/ Least(followers) \notin WordStarts(text, "THEN")

\* Some error of the list names both words.
Names(errors, first, second) ==
    \E i \in DOMAIN errors :
        Find(errors[i].message, first) > 0 /\ Find(errors[i].message, second) > 0

\* C16: validate_sql reports an error naming CASE and END whenever the text has a
\* CASE without an END, and an error naming WHEN and THEN whenever a WHEN is not
\* followed by THEN before the next WHEN, ELSE or END; a text whose CASEs and WHENs
\* are complete gets neither error.
C16_CaseWhenBalance ==
    (reply.method = "validate_sql" /\ origin = None) =>
        /\ CaseWithoutEnd(input_sql) => Names(reply.errors, "CASE", "END")
        /\ WhenWithoutThen(input_sql) => Names(reply.errors, "WHEN", "THEN")
        /\ (~CaseWithoutEnd(input_sql) /\ ~WhenWithoutThen(input_sql))
              => ~Names(reply.errors, "CASE", "END") /\ ~Names(reply.errors, "WHEN", "THEN")

\* C17: when validate_sql reports the text invalid, validate_and_beautify returns
\* is_valid = false, the text as it was given and the error list of the validation.
C17_InvalidKeepsText ==
    (/\ reply.method = "validate_and_beautify"
     /\ \A validation \in validate_sql(input_sql, parse_result) : ~validation.is_valid)
    => /\ ~reply.is_valid
       /\ reply.text = input_sql
       /\ \E validation \in validate_sql(input_sql, parse_result) :
             reply.errors = validation.errors

\* validate_and_beautify ran on a text that parses, and so could be beautified, but
\* that a structural check rejects.
C17_Witness ==
    /\ reply.method = "validate_and_beautify"
    /\ parse_result.kind = "Tree"
    /\ parse_result.pretty # Raises
    /\ parse_result.pretty # input_sql
    /\ ~reply.is_valid
    /\ reply.errors # <<>>

\* The error validate_and_beautify adds for a failure of beautify_sql.
BeautificationFailure(failure) ==
    [message |-> "Beautification failed: " \o failure.message, line |-> None, column |-> None]

\* C18: validate_sql returns an empty error list whenever it reports valid; when the
\* validation succeeds, validate_and_beautify reports valid and returns either the
\* beautified text with an empty error list or, when beautify_sql fails, the text
\* as given with exactly one error, the beautification failure.
C18_ValidWithError ==
    /\ (reply.method = "validate_sql" /\ reply.is_valid) => reply.errors = <<>>
    /\ (/\ reply.method = "validate_and_beautify"
        /\ \A validation \in validate_sql(input_sql, parse_result) : validation.is_valid)
       => /\ reply.is_valid
          /\ \E beautified \in beautify_sql(input_sql, parse_result) :
                IF beautified.kind = "str"
                THEN reply.text = beautified.text /\ reply.errors = <<>>
                ELSE /\ reply.text = input_sql
                     /\ reply.errors = <<BeautificationFailure(beautified)>>
    /\ (reply.method = "validate_and_beautify" /\ reply.is_valid)
       => \A validation \in validate_sql(input_sql, parse_result) : validation.is_valid

\* validate_and_beautify reported a text valid and returned an error with it.
C18_Witness ==
    /\ reply.method = "validate_and_beautify"
    /\ reply.is_valid
    /\ reply.text = input_sql
    /\ Len(reply.errors) = 1
    /\ StartsWith(reply.errors[1].message, "Beautification failed: ")

\* C19: when validate_sql reports a text valid and beautify_sql returns its pretty
\* form, validate_sql reports the pretty form valid as well.
C19_ValidAfterBeautify ==
    (/\ origin # None
     /\ reply.method = "validate_sql"
     /\ \A validation \in validate_sql(origin, parse_result) : validation.is_valid)
    => reply.is_valid

\* A text of blanks and line breaks only.
BlankText(text) == \A i \in 1..Len(text) : SubSeq(text, i, i) \in {" ", "\t", "\r", "\n"}

\* The length of a text without the blanks and line breaks at its ends.
StrippedLength(text) ==
    LET inked == {i \in 1..Len(text) : SubSeq(text, i, i) \notin {" ", "\t", "\r", "\n"}}
    IN  IF inked = {} THEN 0
        ELSE (CHOOSE i \in inked : \A j \in inked : j <= i) - Least(inked) + 1

\* The number of single-quoted literals of a text: its quotes, paired in order.
LiteralCount(text) == Occurs(text, "'", 1, Len(text)) \div 2

\* The parser or the generator failed on the text.
NoPrettyText == parse_result.kind # "Tree" \/ parse_result.pretty = Raises

\* The pretty text has fewer literals than the text, or less than half its length.
ContentLost ==
    /\ ~NoPrettyText
    /\ \/ LiteralCount(input_sql) > LiteralCount(parse_result.pretty)
       \/ 2 * StrippedLength(parse_result.pretty) < StrippedLength(input_sql)

\* The kinds of the errors beautify_sql raises when the parser rejects a text.
ParseFailureKinds ==
    UNION {UNION {{failure.kind : failure \in beautify_sql(sample.sql, outcome)}
                     : outcome \in {o \in sample.outcomes : o.kind = "ParseError"}}
              : sample \in ValidatorSamples}

\* beautify_sql returns the pretty text, whole, or raises: it raises exactly on a
\* blank text, on a failure of the parser or the generator and on lost content.
ReturnsOrRaises ==
    /\ reply.result.kind \in {"str", "ValueError"}
    /\ reply.result.kind = "ValueError"
          <=> (BlankText(input_sql) \/ NoPrettyText \/ ContentLost)
    /\ reply.result.kind = "str" => reply.result.text = parse_result.pretty

Branches == UNION {[1..n -> {"left", "right"}] : n \in 0..MaxPredicates}

\* The node a path leads to when every node passed on the way is an AND node.
RECURSIVE ThroughAnds(_, _)
ThroughAnds(expr, branches) ==
    IF branches = <<>> THEN expr
    ELSE IF expr.kind # "And" THEN [kind |-> "unreached"]
    ELSE ThroughAnds(IF Head(branches) = "left" THEN expr.left ELSE expr.right,
                     Tail(branches))

\* The AND nodes reached from the root through AND nodes only.
TraversedAnds(expr) == {b \in Branches : ThroughAnds(expr, b).kind = "And"}

\* The maximal subexpressions that are not AND nodes.
Conjuncts(expr) == {b \in Branches : ThroughAnds(expr, b).kind \notin {"And", "unreached"}}

\* Path b lies to the left of path c.
LeftOf(b, c) ==
    \E i \in 1..Len(b) :
        /\ i <= Len(c)
        /\ SubSeq(b, 1, i - 1) = SubSeq(c, 1, i - 1)
        /\ b[i] = "left" /\ c[i] = "right"

\* The list is the texts of the conjuncts of the tree, from left to right.
Flattened(expr, predicates) ==
    /\ Len(predicates) = Cardinality(Conjuncts(expr))
    /\ Len(predicates) = Cardinality(TraversedAnds(expr)) + 1
    /\ \A b \in Conjuncts(expr) :
          predicates[1 + Cardinality({c \in Conjuncts(expr) : LeftOf(c, b)})]
              = Sql(ThroughAnds(expr, b))

\* The component model of a side has been extracted from the tree.
ExtractedSide(side) == pc = "extract" /\ Components(side) # EmptyComponents

\* C21: _split_predicates returns, for the WHERE and for the HAVING expression,
\* the texts of the maximal non-AND subexpressions reached from the root through
\* AND nodes only, in left-to-right order: an OR node, a parenthesized group or
\* any other node is one leaf whatever it contains, and there is one leaf more
\* than there are AND nodes traversed.
C21_PredicateFlattening ==
    \A side \in Sides :
        ExtractedSide(side) =>
            /\ ast.where.kind # NoArg =>
                    Flattened(ast.where, Components(side).where_predicates)
            /\ ast.having.kind # NoArg =>
                    Flattened(ast.having, Components(side).having_predicates)

\* WHERE a = 1 AND (b = 2 OR c = 3 AND d = 4) has two leaves; so has a HAVING
\* expression of the same shape.
C21_Witness ==
    /\ ExtractedSide("a")
    /\ ast.where = And(Leaf("a = 1"),
                       [kind |-> "Paren",
                        this |-> Or(Leaf("b = 2"), And(Leaf("c = 3"), Leaf("d = 4")))])
    /\ components_a.where_predicates = <<"a = 1", "(b = 2 OR c = 3 AND d = 4)">>

(***************************************************************************)
(* C22: classification of subqueries                                       *)
(***************************************************************************)
\* Some ancestor of the node is the expression list of a SELECT.
InSelectList(subquery) ==
    \E i \in DOMAIN subquery.ancestors :
        subquery.ancestors[i] = [kind |-> "Select", arg |-> "expressions"]

\* The tag the fixed precedence gives a Subquery node.
TagByPrecedence(subquery) ==
    LET parent == IF subquery.ancestors = <<>> THEN None ELSE subquery.ancestors[1].kind
    IN  CASE parent = "In" -> "WHERE-IN"
          [] parent = "Exists" -> "WHERE-EXISTS"
          [] parent = "Where" -> "WHERE"
          [] parent = "From" -> "FROM"
          [] parent = "Join" -> "JOIN"
          [] parent = "Having" -> "HAVING"
          [] OTHER -> IF InSelectList(subquery) THEN "SELECT" ELSE "UNKNOWN"

\* C22: every Subquery node of the tree has exactly one entry in the extracted
\* subqueries, tagged WHERE-IN, WHERE-EXISTS, WHERE, FROM, JOIN or HAVING by the
\* kind of its parent, and otherwise SELECT when some ancestor is the expression
\* list of a SELECT and UNKNOWN when none is; a scalar subquery compared inside a
\* WHERE predicate is tagged UNKNOWN.
C22_SubqueryTags ==
    \A side \in Sides :
        ExtractedSide(side) =>
            /\ Len(Components(side).subqueries) = Len(ast.subqueries)
            /\ \A i \in DOMAIN ast.subqueries :
                  Components(side).subqueries[i] =
                      [location |-> TagByPrecedence(ast.subqueries[i]),
                       sql |-> ast.subqueries[i].this]

(***************************************************************************)
(* C23: lost string literals are reported by value                         *)
(***************************************************************************)
\* The single-quoted literals of a text: the quotes pair up from the left, and a
\* literal runs from the opening quote of a pair to its closing quote.
Literals(text) ==
    {SubSeq(text, i, j) : <<i, j>> \in
        {p \in (1..Len(text)) \X (1..Len(text)) :
            /\ p[1] < p[2]
            /\ SubSeq(text, p[1], p[1]) = "'" /\ SubSeq(text, p[2], p[2]) = "'"
            /\ Occurs(text, "'", p[1] + 1, p[2] - 1) = 0
            /\ Occurs(text, "'", 1, p[1] - 1) % 2 = 0}}

\* validate_sql has answered on a text the parser gave a tree for, and the tree
\* was re-serialized.
ValidatedRegenerated ==
    /\ reply.method = "validate_sql"
    /\ parse_result.kind = "Tree"
    /\ parse_result.flat # Raises

\* C23: when the parse succeeds, every single-quoted literal that occurs in the
\* original text and not in the re-serialized text is named in a lost-literal
\* error, whatever the numbers of literals of the two texts.
C23_LostLiteralsNamed ==
    ValidatedRegenerated =>
        \A literal \in Literals(input_sql) \ Literals(parse_result.flat) :
            \E i \in DOMAIN reply.errors :
                /\ Find(reply.errors[i].message, "lost string literals") > 0
                /\ Find(reply.errors[i].message, literal) > 0

(***************************************************************************)
(* C24: loss of tokens                                                     *)
(***************************************************************************)
\* Number of whitespace-separated tokens of a text.
Tokens(text) ==
    Cardinality({i \in 1..Len(text) :
        /\ ~BlankText(SubSeq(text, i, i))
        /\ i = 1 \/ BlankText(SubSeq(text, i - 1, i - 1))})

\* The re-serialized text has less than 85% of the tokens of the original.
TokensLost == Tokens(parse_result.flat) * 100 < Tokens(input_sql) * 85

\* The re-serialized text has fewer single-quoted literals than the original.
LiteralsLost == LiteralCount(parse_result.flat) < LiteralCount(input_sql)

\* Number of errors whose message holds the words.
Saying(words) ==
    Cardinality({i \in DOMAIN reply.errors : Find(reply.errors[i].message, words) > 0})

BeginsWithBy(line) ==
    LET t == Trimmed(line)
    IN  /\ Len(t) >= 2
        /\ SameLetters(SubSeq(t, 1, 2), "BY")
        /\ Len(t) = 2 \/ ~IsWordCharacter(SubSeq(t, 3, 3))

\* The lines after line n that are not blank.
InkedAfter(text, n) ==
    {m \in (n + 1)..LineCount(text) : Trimmed(NthLine(text, m)) # ""}

\* Line n is the keyword alone and the next non-empty line, if there is one,
\* does not begin with BY.
LacksBy(text, n, keyword) ==
    /\ SameLetters(Trimmed(NthLine(text, n)), keyword)
    /\ \/ InkedAfter(text, n) = {}
       \/ ~BeginsWithBy(NthLine(text, Least(InkedAfter(text, n))))

\* C25: a line that is exactly ORDER or exactly GROUP (trimmed, in any case) is
\* reported as an incomplete keyword, with its 1-based line number, exactly when
\* the next non-empty line does not begin with BY or no non-empty line follows;
\* blank lines before the BY line do not make it reported.
C25_IncompleteKeywords ==
    reply.method = "_validate_structure" =>
        \A n \in 1..LineCount(input_sql), keyword \in {"ORDER", "GROUP"} :
            LacksBy(input_sql, n, keyword)
            <=> \E k \in DOMAIN reply.errors :
                   /\ StartsWith(reply.errors[k].message,
                                 "Incomplete keyword '" \o keyword \o "'")
                   /\ reply.errors[k].line = n

(***************************************************************************)
(* C26: a word followed by a quoted literal with no operator before it     *)
(***************************************************************************)
\* The occurrences of a word, whitespace and a quoted literal in a text, each as
\* <<first character of the word, last character of the word, opening quote,
\* closing quote>>.
WordThenLiteral(text) ==
    LET Is(i, chars) == i <= Len(text) /\ SubSeq(text, i, i) \in chars
        Word(i) == i <= Len(text) /\ IsWordCharacter(SubSeq(text, i, i))
        starts == {k \in 1..Len(text) : Word(k) /\ (k = 1 \/ ~Word(k - 1))}
        \* the first position from k on that does not continue the word
        WordStop(k) == Least({i \in k..(Len(text) + 1) : ~Word(i)})
        \* the first position from k on that is not whitespace
        BlankStop(k) == Least({i \in k..(Len(text) + 1) : ~Is(i, {" ", "\t", "\r", "\n"})})
        Closing(open) == {i \in (open + 1)..Len(text) : Is(i, {SubSeq(text, open, open)})}
    IN  UNION {LET open == BlankStop(WordStop(k))
               IN  IF open > WordStop(k) /\ Is(open, {"'", "\""}) /\ Closing(open) # {}
                   THEN {<<k, WordStop(k) - 1, open, Least(Closing(open))>>}
                   ELSE {} : k \in starts}

\* One of the operators stands in the 10 characters before position k.
OperatorBefore(text, k) ==
    \E op \in {"=", ">", "<", "!", "IN", "LIKE"} :
        Find(SubSeq(text, IF k > 10 THEN k - 10 ELSE 1, k - 1), op) > 0

\* C26: for every word followed by whitespace and a quoted literal, wherever it
\* stands in the text, an incomplete-comparison error naming the word and the
\* literal is reported exactly when none of =, >, <, !, IN, LIKE stands in the
\* 10 characters before the word.
C26_MissingOperator ==
    reply.method = "_validate_structure" =>
        \A occ \in WordThenLiteral(input_sql) :
            ~OperatorBefore(input_sql, occ[1])
            <=> \E i \in DOMAIN reply.errors :
                   StartsWith(reply.errors[i].message,
                              "Incomplete comparison: '"
                              \o SubSeq(input_sql, occ[1], occ[2]) \o " "
                              \o SubSeq(input_sql, occ[3], occ[4]) \o "'")

(***************************************************************************)
(* C27: the scan for misspelled keywords                                   *)
(***************************************************************************)
\* The misspellings looked for, each with its correction.
Misspellings ==
    {<<"SELCT", "SELECT">>, <<"FORM", "FROM">>, <<"WHRE", "WHERE">>,
     <<"GROPU", "GROUP">>, <<"ODER", "ORDER">>, <<"HAVIG", "HAVING">>}

\* The word occurs in the text, whatever the case of the letters.
OccursAnyCase(text, word) ==
    \E i \in 1..(Len(text) - Len(word) + 1) :
        SameLetters(SubSeq(text, i, i + Len(word) - 1), word)

\* C27: a misspelling of the fixed set that occurs anywhere in the text, in any
\* case, inside a longer identifier or a string literal as well, is reported
\* with its correction, and no misspelling is reported that does not occur; a
\* text that holds one is invalid.
C27_TypoScan ==
    reply.method = "validate_sql" =>
        \A typo \in Misspellings :
            /\ OccursAnyCase(input_sql, typo[1]) => ~reply.is_valid
            /\ parse_result.kind = "Tree" =>
                  Saying("Possible typo: '" \o typo[1] \o "' (did you mean '"
                         \o typo[2] \o "'?)")
                  = (IF OccursAnyCase(input_sql, typo[1]) THEN 1 ELSE 0)

\* A well-formed query with FORM inside two identifiers and a string literal:
\* one error, and the query is invalid.
C27_Witness ==
    /\ reply.method = "validate_sql"
    /\ input_sql = "SELECT platform FROM information WHERE note = 'reform'"
    /\ ~reply.is_valid
    /\ Saying("Possible typo: 'FORM' (did you mean 'FROM'?)") = 1
    /\ Len(reply.errors) = 1

\* A text cut to a bound: whole when within it, else its first bound - 3
\* characters and "...".
Cut(text, bound) ==
    IF Len(text) <= bound THEN text ELSE SubSeq(text, 1, bound - 3) \o "..."

\* The SQL text a summary embeds: what follows its first ": ".
Embedded(summary) == SubSeq(summary, Find(summary, ": ") + 2, Len(summary))

\* C28: in every notice of the differ the SQL text embedded in the summary (select
\* item, table, JOIN signature, predicate, GROUP BY or ORDER BY item) is a value of
\* one of the two component models cut to 60 characters, hence at most 60
\* characters long, and the details are a subquery body cut to 150 characters:
\* a longer text is cut to the bound less 3 characters followed by "...", a text
\* within the bound is left unchanged.
C28_TruncationBound ==
    call # NoCall =>
        \A i \in DOMAIN notices :
            LET notice == notices[i]
                values == Listed(ArgA, notice.category) \cup Listed(ArgB, notice.category)
            IN  /\ notice.category \in ListCategories =>
                      /\ Len(Embedded(notice.summary)) <= 60
                      /\ \E v \in values : Embedded(notice.summary) = Cut(v, 60)
                /\ notice.details # None =>
                      /\ Len(notice.details) <= 150
                      /\ notice.details \in {Cut(ArgA.subqueries[k].sql, 150) :
                                                k \in DOMAIN ArgA.subqueries}
                                            \cup {Cut(ArgB.subqueries[k].sql, 150) :
                                                    k \in DOMAIN ArgB.subqueries}

\* Two lists with the same entries: one is a permutation of the other, or they
\* differ only in how often entries are repeated, or both.
SameEntries(x, y) == ToSet(x) = ToSet(y)

\* The lists of the latest call's two component models named by the claim have the
\* same entries, and the LIMIT, the OFFSET and the subqueries are equal.
Reordered ==
    /\ call # NoCall
    /\ SameEntries(ArgA.select_expressions, ArgB.select_expressions)
    /\ SameEntries(ArgA.joins, ArgB.joins)
    /\ SameEntries(ArgA.where_predicates, ArgB.where_predicates)
    /\ SameEntries(ArgA.group_by, ArgB.group_by)
    /\ SameEntries(ArgA.having_predicates, ArgB.having_predicates)
    /\ SameEntries(ArgA.order_by, ArgB.order_by)
    /\ ArgA.limit = ArgB.limit
    /\ ArgA.offset = ArgB.offset
    /\ ArgA.subqueries = ArgB.subqueries

\* C29 as stated: if B's select_expressions, joins, where_predicates, group_by,
\* having_predicates and order_by are permutations of A's or differ from A's only
\* by repeated entries, and limit, offset and subqueries are equal, the differ
\* returns no notice.
C29_NoNoticeAsClaimed == Reordered => notices = <<>>

\* C29, amended: if moreover the FROM tables of A and B have the same entries, the
\* differ returns no notice, whatever the order and the multiplicity of the
\* entries of the lists.
C29_OrderAndMultiplicityIgnored ==
    Reordered /\ SameEntries(ArgA.from_tables, ArgB.from_tables) => notices = <<>>

\* The differ ran on two component models whose SELECT items, joins, WHERE and
\* HAVING predicates, GROUP BY columns and ORDER BY items are two different texts
\* in opposite orders, and returned no notice.
C29_Witness ==
    /\ call = <<"a", "b">>
    /\ Len(ArgA.select_expressions) = 2
    /\ ArgA.select_expressions[1] # ArgA.select_expressions[2]
    /\ ArgB.select_expressions = <<ArgA.select_expressions[2], ArgA.select_expressions[1]>>
    /\ ArgB.order_by = ArgB.select_expressions /\ ArgA.order_by = ArgA.select_expressions
    /\ Len(ArgA.joins) = 2 /\ ArgB.joins = <<ArgA.joins[2], ArgA.joins[1]>>
    /\ ArgA.joins # ArgB.joins
    /\ ArgA.where_predicates # ArgB.where_predicates
    /\ notices = <<>>

\* The text diff of the returned result is the one over the two given texts.
DiffOverOriginals ==
    result.text_diff = generate_text_diff(sql_a, sql_b, config.ignore_whitespace)

\* Both inputs normalize, and the text diff of the returned result is the one over
\* the two normalized texts.
DiffOverNormalized ==
    /\ ~normalize_sql(sql_a).raised
    /\ ~normalize_sql(sql_b).raised
    /\ result.text_diff =
          generate_text_diff(normalize_sql(sql_a).value, normalize_sql(sql_b).value,
                             config.ignore_whitespace)

\* The semantic stage of the call normalizes.
Normalizing == config.semantic_diff /\ config.normalize

\* C30: the text diff compare_sql returns is over both original texts or over both
\* normalized texts, never over one of each.  When the second input fails to
\* normalize after the first was normalized, the diff is over both originals
\* although sql_a_normalized is set and sql_b_normalized is absent; when both
\* normalize and the extraction then fails, the diff is over both normalized
\* texts.
C30_TextsNeverMixed ==
    result.returned =>
        /\ DiffOverOriginals \/ (Normalizing /\ DiffOverNormalized)
        /\ (/\ Normalizing
            /\ ~normalize_sql(sql_a).raised
            /\ normalize_sql(sql_b).raised)
              => /\ DiffOverOriginals
                 /\ result.sql_a_normalized = normalize_sql(sql_a).value
                 /\ result.sql_b_normalized = NoText
        /\ (/\ Normalizing
            /\ ~normalize_sql(sql_a).raised
            /\ ~normalize_sql(sql_b).raised
            /\ result.parse_error # None)
              => DiffOverNormalized

\* compare_sql returned after the second input failed to normalize, on a first
\* input whose normalized text differs from the text given, so that a diff of the
\* normalized first text with the original second text would be another diff.
C30_Witness ==
    /\ result.returned
    /\ Normalizing
    /\ result.sql_a_normalized # NoText
    /\ result.sql_a_normalized # sql_a
    /\ result.sql_b_normalized = NoText
    /\ result.parse_error # None
    /\ generate_text_diff(result.sql_a_normalized, sql_b, config.ignore_whitespace)
          # result.text_diff

====
